---- MODULE Spec2Model ----
(***************************************************************************)
(* A model of the falconeri scheduler: the datum reservation protocol      *)
(* (falconeri_common/src/models), the falconerid request handlers, the     *)
(* babysitter reconciler and the falconeri-worker main loop, all acting on  *)
(* one PostgreSQL database and one Kubernetes cluster.                     *)
(*                                                                         *)
(* A database transaction that takes one row lock and then only reads and  *)
(* writes is one atomic step, taken when the row is not locked by anybody  *)
(* else.  The reservation transaction is split at its SELECT ... FOR       *)
(* UPDATE SKIP LOCKED so that the row lock it holds is visible to the      *)
(* other transactions.  Statements outside transactions are separate       *)
(* steps.                                                                  *)
(***************************************************************************)
EXTENDS Integers, FiniteSets, Sequences, TLC

\* ------------------------------------------------------------------ bounds
\* Number of datums the planner emitted for the first job.
NumDatums == 2
\* Number of worker pods of the first job.
NumPods == 2
\* Number of falconerid replicas, each running one babysitter thread.
NumBabysitters == 2
\* Largest maximum_allowed_run_count a datum is created with.
MaxAllowedRuns == 2
\* Largest number of files a user command leaves in /pfs/out.
MaxOutputFiles == 1
\* maximum_allowed_run_count of the datum of the retry scenario.
RetryScenarioRuns == 3
\* Number of request handlers falconerid runs in parallel.
NumCalls == 3

\* ------------------------------------------------------------- constants
NoJob == 0
NoDatum == 0
NoPod == 0
NoNode == 0
FirstJob == 1
RetryJobId == 2
Null == "null"

JobIds == {FirstJob, RetryJobId}
FirstDatums == 1..NumDatums
Pods == 1..NumPods
Babysitters == 1..NumBabysitters
Calls == 1..NumCalls
\* The pods that send requests to falconerid: one per handler thread.
CallerPods == 1..NumCalls

\* models::Status
Status == {"ready", "running", "done", "error", "canceled"}

\* Status::has_finished
has_finished(status) == status \in {"done", "error", "canceled"}

\* The node a pod is scheduled on (kubernetes::node_name for that pod).
node_name(p) == 100 + p

VARIABLES
    jobs,           \* table jobs: id -> row
    datums,         \* table datums: id -> row
    output_files,   \* table output_files: datum id -> statuses of its rows
    row_locks,      \* datum rows locked FOR UPDATE by an open reservation
    k8s_jobs,       \* names of the Kubernetes jobs present on the cluster
    running_pods,   \* names of the pods in phase Running
    worker,         \* falconeri-worker processes, one per pod
    babysitter,     \* babysitter threads, one per falconerid replica
    calls,          \* falconerid request handlers in progress
    plan,           \* per datum: how many attempts of the user command fail
    input_files,    \* table input_files: datum id -> its rows
    planner,        \* the pipeline spec of a POST /jobs request, the cloud
                    \* storage it names, and what the planner made of them
    initially,      \* the tables as they were when the babysitters started
    threads,        \* per thread of falconerid, the database and adapter
                    \* calls it makes, how far it is, and the locks it holds
    operation       \* a network operation under retry_if_appropriate

vars == <<jobs, datums, output_files, row_locks, k8s_jobs, running_pods,
          worker, babysitter, calls, plan, input_files,
                   planner, initially, threads, operation>>

\* ------------------------------------------------------------ the tables
\* (mutant) the new row belongs to the first job, whatever job_id says.
NewDatumOfFirstJob(job_id, max) ==
    [status |-> "ready", job_id |-> FirstJob, error_message |-> Null,
     node_name |-> NoNode, pod_name |-> NoPod, backtrace |-> Null,
     output |-> Null, attempted_run_count |-> 0,
     maximum_allowed_run_count |-> max]

\* A row of table datums as NewDatum::insert_all leaves it.
NewDatum(job_id, max) ==
    [status |-> "ready", job_id |-> job_id, error_message |-> Null,
     node_name |-> NoNode, pod_name |-> NoPod, backtrace |-> Null,
     output |-> Null, attempted_run_count |-> 0,
     maximum_allowed_run_count |-> max]

\* A row of table jobs as NewJob::insert leaves it; old says that created_at
\* is more than 15 minutes in the past.
NewJob == [status |-> "running", old |-> FALSE]

DatumIds == DOMAIN datums

\* The rows of table input_files that the planner emitted for datum d of the
\* first job: d files, each with its uri and its local path.
PlannedInputFiles(d) ==
    {[uri |-> <<"uri", d, f>>, local_path |-> <<"path", d, f>>] : f \in 1..d}

\* Datum::belonging_to(job)
DatumsOf(j) == {d \in DatumIds : datums[d].job_id = j}


\* --------------------------------------------------- Job (models/job.rs)
\* Job::datum_status_counts: per status, the number of datums of the job
\* and how many of them are 'error' with attempts left.
datum_status_counts(j) ==
    [s \in Status |->
        [count |-> Cardinality({d \in DatumsOf(j) : datums[d].status = s}),
         rerunable_count |->
            Cardinality({d \in DatumsOf(j) :
                /\ datums[d].status = s
                /\ datums[d].status = "error"
                /\ datums[d].attempted_run_count
                       < datums[d].maximum_allowed_run_count})]]

\* The four sums of Job::update_status_if_done.
unfinished(j) ==
    datum_status_counts(j)["ready"].count
        + datum_status_counts(j)["running"].count

successful(j) == datum_status_counts(j)["done"].count

rerunable(j) == datum_status_counts(j)["error"].rerunable_count

failed(j) ==
    (datum_status_counts(j)["error"].count
        - datum_status_counts(j)["error"].rerunable_count)
    + datum_status_counts(j)["canceled"].count

\* (mutant) the decision looks at the failed datums first.
update_status_failed_first(j) ==
    IF jobs[j].status # "running" THEN jobs[j].status
    ELSE IF failed(j) > 0 THEN "error"
    ELSE IF unfinished(j) > 0 \/ rerunable(j) > 0 THEN jobs[j].status
    ELSE "done"

\* (mutant) the decision does not wait for the datums that can be rerun.
update_status_ignoring_rerunable(j) ==
    IF jobs[j].status # "running" THEN jobs[j].status
    ELSE IF unfinished(j) > 0 THEN jobs[j].status
    ELSE IF failed(j) > 0 \/ rerunable(j) > 0 THEN "error"
    ELSE "done"

\* (mutant) the call does not return early on a job that is not running.
update_status_unguarded(j) ==
    IF unfinished(j) > 0 \/ rerunable(j) > 0 THEN jobs[j].status
    ELSE IF failed(j) > 0 THEN "error"
    ELSE "done"

\* Job::update_status_if_done: the status of job j after the call.
update_status_if_done(j) ==
    IF jobs[j].status # "running" THEN jobs[j].status
    ELSE IF unfinished(j) > 0 \/ rerunable(j) > 0 THEN jobs[j].status
    ELSE IF failed(j) > 0 THEN "error"
    ELSE "done"

\* (mutant) the caller leaves the job as it is.
JobsWithoutUpdate(j) == jobs

\* The jobs table after Job::update_status_if_done(j) committed.
JobsAfterUpdate(j) ==
    [jobs EXCEPT ![j].status = update_status_if_done(j)]

\* (mutant) the lookup compares pod_name with the caller's node name.
find_reserved_by_node(j, pod) ==
    {d \in DatumsOf(j) :
        datums[d].pod_name = node_name(pod) /\ datums[d].status = "running"}

\* Job::find_already_reserved_datum: the running datums of j held by pod.
find_already_reserved_datum(j, pod) ==
    {d \in DatumsOf(j) :
        datums[d].pod_name = pod /\ datums[d].status = "running"}

\* (mutant) the SELECT takes no row lock and skips no locked row.
ReadyIgnoringLocks(j) ==
    {d \in DatumsOf(j) : datums[d].status = "ready"}

\* Job::actually_reserve_next_datum, the SELECT: the ready datums of j whose
\* row no other transaction has locked (FOR UPDATE SKIP LOCKED).
ReadyUnlocked(j) ==
    {d \in DatumsOf(j) : datums[d].status = "ready" /\ d \notin row_locks}

\* (mutant) the UPDATE leaves pod_name as it was.
MarkRunningWithoutPod(d, node, pod) ==
    [datums EXCEPT ![d] =
        [@ EXCEPT !.status = "running", !.node_name = node,
                  !.attempted_run_count = @ + 1]]

\* Job::actually_reserve_next_datum, the UPDATE.
MarkRunning(d, node, pod) ==
    [datums EXCEPT ![d] =
        [@ EXCEPT !.status = "running", !.node_name = node,
                  !.pod_name = pod,
                  !.attempted_run_count = @ + 1]]

\* ----------------------------------------------- Datum (models/datum.rs)
\* Datum::mark_as_done
mark_as_done(d, output) ==
    [datums EXCEPT ![d] = [@ EXCEPT !.status = "done", !.output = output]]

\* (mutant) the mark counts as a run.
mark_as_error_and_count(d, output, error_message, backtrace) ==
    [datums EXCEPT ![d] =
        [@ EXCEPT !.status = "error", !.output = output,
                  !.error_message = error_message,
                  !.backtrace = backtrace,
                  !.attempted_run_count = @ + 1]]

\* Datum::mark_as_error
mark_as_error(d, output, error_message, backtrace) ==
    [datums EXCEPT ![d] =
        [@ EXCEPT !.status = "error", !.output = output,
                  !.error_message = error_message,
                  !.backtrace = backtrace]]

\* (mutant) the requeue counts as a run.
mark_as_ready_and_count(d) ==
    [datums EXCEPT ![d] =
        [@ EXCEPT !.status = "ready", !.attempted_run_count = @ + 1]]

\* Datum::mark_as_eligible_for_rerun
mark_as_eligible_for_rerun(d) ==
    [datums EXCEPT ![d].status = "ready"]

\* (mutant) the check under the lock looks at the status only.
is_error(row) == row.status = "error"

\* Datum::is_rerunable, on the row as loaded under the lock.
is_rerunable(row) ==
    /\ row.status = "error"
    /\ row.attempted_run_count < row.maximum_allowed_run_count

\* Datum::active_with_status
active_with_status(status) ==
    {d \in DatumIds :
        jobs[datums[d].job_id].status = "running"
            /\ datums[d].status = status}

\* Datum::rerunable
rerunable_datums ==
    {d \in DatumIds :
        /\ jobs[datums[d].job_id].status = "running"
        /\ datums[d].status = "error"
        /\ datums[d].attempted_run_count
               < datums[d].maximum_allowed_run_count}

\* --------------------------------- OutputFile (models/output_file.rs)
\* (mutant) the rows of the datum stay.
keep_for_datum(d) == output_files

\* OutputFile::delete_for_datum
delete_for_datum(d) == [output_files EXCEPT ![d] = <<>>]

\* OutputFile::mark_as_done_by_datum / mark_as_error_by_datum
mark_by_datum(d, status) ==
    [output_files EXCEPT ![d] = [i \in DOMAIN @ |-> status]]

\* (mutant) the row is inserted as done.
insert_output_file_as_done(d) ==
    [output_files EXCEPT ![d] = Append(@, "done")]

\* NewOutputFile::insert_all with one row
insert_output_file(d) ==
    [output_files EXCEPT ![d] = Append(@, "running")]


\* ------------------------------- falconeri-worker (falconeri-worker/main.rs)
\* The worker of pod p runs for the first job.
WorkerJob == FirstJob

\* What the user command and the transfers of one attempt do.  plan[d] is
\* the number of attempts on datum d that fail before one succeeds, or AnyOutcome
\* when every attempt may go either way.
AnyOutcome == -1

MaySucceed(d, n) == plan[d] = AnyOutcome \/ n > plan[d]

MayFail(d, n) == plan[d] = AnyOutcome \/ n <= plan[d]

IdleWorker ==
    [pc |-> "find_job", datum |-> NoDatum, attempt |-> 0, files |-> 0,
     result |-> Null]

\* main, line 59: fetch the job and leave the loop unless it is running.
WorkerFindJob(p) ==
    /\ worker[p].pc = "find_job"
    /\ IF jobs[WorkerJob].status # "running"
       THEN /\ worker' = [worker EXCEPT ![p].pc = "exited"]
            /\ running_pods' = running_pods \ {p}
       ELSE /\ worker' = [worker EXCEPT ![p].pc = "find_reserved"]
            /\ UNCHANGED running_pods
    /\ UNCHANGED <<jobs, datums, output_files, row_locks, k8s_jobs,
                   babysitter, calls, plan, input_files,
                   planner, initially, threads, operation>>

\* Job::reserve_next_datum, the lookup of an existing reservation.
WorkerFindReserved(p) ==
    /\ worker[p].pc = "find_reserved"
    /\ IF find_already_reserved_datum(WorkerJob, p) # {}
       THEN \E d \in find_already_reserved_datum(WorkerJob, p) :
                worker' = [worker EXCEPT
                    ![p].pc = "process", ![p].datum = d,
                    ![p].attempt = datums[d].attempted_run_count]
       ELSE worker' = [worker EXCEPT ![p].pc = "select"]
    /\ UNCHANGED <<jobs, datums, output_files, row_locks, k8s_jobs,
                   running_pods, babysitter, calls, plan, input_files,
                   planner, initially, threads, operation>>

\* Job::actually_reserve_next_datum: SELECT ... FOR UPDATE SKIP LOCKED.
WorkerSelect(p) ==
    /\ worker[p].pc = "select"
    /\ IF ReadyUnlocked(WorkerJob) # {}
       THEN \E d \in ReadyUnlocked(WorkerJob) :
                /\ row_locks' = row_locks \cup {d}
                /\ worker' = [worker EXCEPT ![p].pc = "update",
                                            ![p].datum = d]
       ELSE /\ worker' = [worker EXCEPT ![p].pc = "update_status"]
            /\ UNCHANGED row_locks
    /\ UNCHANGED <<jobs, datums, output_files, k8s_jobs, running_pods,
                   babysitter, calls, plan, input_files,
                   planner, initially, threads, operation>>

\* Job::actually_reserve_next_datum: the UPDATE and the commit.
WorkerUpdate(p) ==
    /\ worker[p].pc = "update"
    /\ datums' = MarkRunning(worker[p].datum, node_name(p), p)
    /\ row_locks' = row_locks \ {worker[p].datum}
    /\ worker' = [worker EXCEPT
            ![p].pc = "process",
            ![p].attempt = datums'[worker[p].datum].attempted_run_count]
    /\ UNCHANGED <<jobs, output_files, k8s_jobs, running_pods, babysitter,
                   calls, plan, input_files,
                   planner, initially, threads, operation>>

\* process_datum fails before sync_up (a download fails, the command exits
\* with a nonzero status, or upload_outputs can not record a file), and
\* main, lines 85-99, records it.
WorkerCommandFails(p) ==
    /\ worker[p].pc = "process"
    /\ MayFail(worker[p].datum, worker[p].attempt)
    /\ worker[p].datum \notin row_locks
    /\ datums' = mark_as_error(worker[p].datum, "captured", "failed", "trace")
    /\ worker' = [worker EXCEPT ![p] = IdleWorker]
    /\ UNCHANGED <<jobs, output_files, row_locks, k8s_jobs, running_pods,
                   babysitter, calls, plan, input_files,
                   planner, initially, threads, operation>>

\* upload_outputs: one OutputFile row per file found in /pfs/out.
WorkerCreateOutputFile(p) ==
    /\ worker[p].pc = "process"
    /\ worker[p].files < MaxOutputFiles
    /\ output_files' = insert_output_file(worker[p].datum)
    /\ worker' = [worker EXCEPT ![p].files = @ + 1]
    /\ UNCHANGED <<jobs, datums, row_locks, k8s_jobs, running_pods,
                   babysitter, calls, plan, input_files,
                   planner, initially, threads, operation>>

\* upload_outputs: sync_up and the recording of its result on the
\* OutputFile rows of the datum.
WorkerSyncUp(p) ==
    /\ worker[p].pc = "process"
    /\ \E ok \in BOOLEAN :
        /\ IF ok THEN MaySucceed(worker[p].datum, worker[p].attempt)
                 ELSE MayFail(worker[p].datum, worker[p].attempt)
        /\ output_files' =
              mark_by_datum(worker[p].datum, IF ok THEN "done" ELSE "error")
        /\ worker' = [worker EXCEPT
              ![p].pc = "mark", ![p].files = 0,
              ![p].result = IF ok THEN "ok" ELSE "err"]
    /\ UNCHANGED <<jobs, datums, row_locks, k8s_jobs, running_pods,
                   babysitter, calls, plan, input_files,
                   planner, initially, threads, operation>>

\* main, lines 83-101: record the result on the datum.
WorkerMark(p) ==
    /\ worker[p].pc = "mark"
    /\ worker[p].datum \notin row_locks
    /\ datums' =
          IF worker[p].result = "ok"
          THEN mark_as_done(worker[p].datum, "captured")
          ELSE mark_as_error(worker[p].datum, "captured", "failed", "trace")
    /\ worker' = [worker EXCEPT ![p] = IdleWorker]
    /\ UNCHANGED <<jobs, output_files, row_locks, k8s_jobs, running_pods,
                   babysitter, calls, plan, input_files,
                   planner, initially, threads, operation>>

\* main, line 104: no datum was reserved.
WorkerUpdateStatus(p) ==
    /\ worker[p].pc = "update_status"
    /\ jobs' = JobsAfterUpdate(WorkerJob)
    /\ worker' = [worker EXCEPT ![p].pc = "wait"]
    /\ UNCHANGED <<datums, output_files, row_locks, k8s_jobs, running_pods,
                   babysitter, calls, plan, input_files,
                   planner, initially, threads, operation>>

\* (mutant) the worker leaves after update_status_if_done without polling.
WorkerLeaves(p) ==
    /\ worker[p].pc = "wait"
    /\ worker' = [worker EXCEPT ![p].pc = "exited"]
    /\ running_pods' = running_pods \ {p}
    /\ UNCHANGED <<jobs, datums, output_files, row_locks, k8s_jobs,
                   babysitter, calls, plan, input_files,
                   planner, initially, threads, operation>>

\* main, lines 110-116: poll the job until it is no longer running.
WorkerWait(p) ==
    /\ worker[p].pc = "wait"
    /\ jobs[WorkerJob].status # "running"
    /\ worker' = [worker EXCEPT ![p].pc = "exited"]
    /\ running_pods' = running_pods \ {p}
    /\ UNCHANGED <<jobs, datums, output_files, row_locks, k8s_jobs,
                   babysitter, calls, plan, input_files,
                   planner, initially, threads, operation>>

\* The pod of a worker is killed or evicted; an open transaction of the
\* worker is rolled back.
PodDies(p) ==
    /\ p \in running_pods
    /\ worker[p].pc # "exited"
    /\ running_pods' = running_pods \ {p}
    /\ row_locks' = IF worker[p].pc = "update"
                    THEN row_locks \ {worker[p].datum} ELSE row_locks
    /\ worker' = [worker EXCEPT ![p] = [IdleWorker EXCEPT !.pc = "dead"]]
    /\ UNCHANGED <<jobs, datums, output_files, k8s_jobs, babysitter, calls,
                   plan, input_files,
                   planner, initially, threads, operation>>

WorkerStep(p) ==
    \/ WorkerFindJob(p)
    \/ WorkerFindReserved(p)
    \/ WorkerSelect(p)
    \/ WorkerUpdate(p)
    \/ WorkerCommandFails(p)
    \/ WorkerCreateOutputFile(p)
    \/ WorkerSyncUp(p)
    \/ WorkerMark(p)
    \/ WorkerUpdateStatus(p)
    \/ WorkerWait(p)


\* ---------------------------------------- babysitter (falconerid/babysitter.rs)
IdleBabysitter ==
    [pc |-> "sleep", jobs |-> {}, names |-> {}, running |-> <<>>,
     zombies |-> {}, cur |-> NoDatum, rerun |-> {}]

\* check_for_finished_and_vanished_jobs, lines 90-91: load the running jobs
\* and the names of the Kubernetes jobs.
BabysitterLoadJobs(b) ==
    /\ babysitter[b].pc = "sleep"
    /\ babysitter' = [babysitter EXCEPT
            ![b].pc = "jobs",
            ![b].jobs = {j \in DOMAIN jobs : jobs[j].status = "running"},
            ![b].names = k8s_jobs]
    /\ UNCHANGED <<jobs, datums, output_files, row_locks, k8s_jobs,
                   running_pods, worker, calls, plan, input_files,
                   planner, initially, threads, operation>>

\* (mutant) the rule does not look at the Kubernetes jobs.
vanished_ignoring_cluster(status, old, in_cluster) ==
    IF status = "running" /\ old THEN "error" ELSE status

\* (mutant) the rule does not wait for the job to be 15 minutes old.
vanished_without_cutoff(status, old, in_cluster) ==
    IF status = "running" /\ ~in_cluster THEN "error" ELSE status

\* (mutant) the babysitter never gives up on a job.
vanished_rule_disabled(status, old, in_cluster) == status

\* check_for_finished_and_vanished_jobs, lines 110-118: the status the
\* transaction leaves on a job whose row has the given status after
\* update_status_if_done; old says that created_at is before the cutoff and
\* in_cluster that the loaded job names contain the job's.
vanished_rule(status, old, in_cluster) ==
    IF status = "running" /\ old /\ ~in_cluster THEN "error" ELSE status

\* check_for_finished_and_vanished_jobs, lines 93-119: the transaction on
\* one of the loaded jobs.
BabysitterCheckJob(b, j) ==
    /\ babysitter[b].pc = "jobs"
    /\ j \in babysitter[b].jobs
    /\ jobs' = [jobs EXCEPT ![j].status =
            vanished_rule(update_status_if_done(j), jobs[j].old,
                          j \in babysitter[b].names)]
    /\ babysitter' = [babysitter EXCEPT ![b].jobs = @ \ {j}]
    /\ UNCHANGED <<datums, output_files, row_locks, k8s_jobs, running_pods,
                   worker, calls, plan, input_files,
                   planner, initially, threads, operation>>

\* Datum::zombies, line 73: load the running datums of running jobs.
BabysitterLoadRunning(b) ==
    /\ babysitter[b].pc = "jobs"
    /\ babysitter[b].jobs = {}
    /\ babysitter' = [babysitter EXCEPT
            ![b].pc = "pods", ![b].names = {},
            ![b].running = [d \in active_with_status("running")
                                |-> datums[d].pod_name]]
    /\ UNCHANGED <<jobs, datums, output_files, row_locks, k8s_jobs,
                   running_pods, worker, calls, plan, input_files,
                   planner, initially, threads, operation>>

\* Datum::zombies, lines 75-85: of the loaded datums, those whose pod is not
\* among the running pods.
zombies(running, pod_names) ==
    {d \in DOMAIN running :
        running[d] = NoPod \/ running[d] \notin pod_names}

\* Datum::zombies, lines 75-85: ask Kubernetes for the running pods.
BabysitterLoadPods(b) ==
    /\ babysitter[b].pc = "pods"
    /\ babysitter' = [babysitter EXCEPT
            ![b].pc = "zombies", ![b].running = <<>>,
            ![b].zombies = zombies(babysitter[b].running, running_pods)]
    /\ UNCHANGED <<jobs, datums, output_files, row_locks, k8s_jobs,
                   running_pods, worker, calls, plan, input_files,
                   planner, initially, threads, operation>>

\* (mutant) the transaction does not check the status of the locked row.
zombie_without_recheck(d) ==
    mark_as_error(d, "nocapture", "vanished", "notrace")

\* check_for_zombie_datums, lines 133-148: the datums table after the
\* transaction on candidate d, which marks the locked row as error if it is
\* still running.
zombie_transaction(d) ==
    IF datums[d].status = "running"
    THEN mark_as_error(d, "nocapture", "vanished", "notrace")
    ELSE datums

\* check_for_zombie_datums, lines 132-149: the transaction on one candidate.
BabysitterZombie(b, d) ==
    /\ babysitter[b].pc = "zombies"
    /\ d \in babysitter[b].zombies
    /\ d \notin row_locks
    /\ datums' = zombie_transaction(d)
    /\ babysitter' = [babysitter EXCEPT
            ![b].pc = "zombie_job", ![b].zombies = @ \ {d}, ![b].cur = d]
    /\ UNCHANGED <<jobs, output_files, row_locks, k8s_jobs, running_pods,
                   worker, calls, plan, input_files,
                   planner, initially, threads, operation>>

\* check_for_zombie_datums, line 152: Datum::update_job_status_if_done.
BabysitterZombieJob(b) ==
    /\ babysitter[b].pc = "zombie_job"
    /\ jobs' = JobsAfterUpdate(datums[babysitter[b].cur].job_id)
    /\ babysitter' = [babysitter EXCEPT ![b].pc = "zombies",
                                        ![b].cur = NoDatum]
    /\ UNCHANGED <<datums, output_files, row_locks, k8s_jobs, running_pods,
                   worker, calls, plan, input_files,
                   planner, initially, threads, operation>>

\* check_for_datums_which_can_be_rerun, line 161: load the candidates.
BabysitterLoadRerunable(b) ==
    /\ babysitter[b].pc = "zombies"
    /\ babysitter[b].zombies = {}
    /\ babysitter' = [babysitter EXCEPT
            ![b].pc = IF rerunable_datums = {} THEN "sleep" ELSE "rerun",
            ![b].rerun = rerunable_datums]
    /\ UNCHANGED <<jobs, datums, output_files, row_locks, k8s_jobs,
                   running_pods, worker, calls, plan, input_files,
                   planner, initially, threads, operation>>

\* check_for_datums_which_can_be_rerun, lines 166-200: the transaction on
\* one candidate; the tick ends after the last one.
BabysitterRerun(b, d) ==
    /\ babysitter[b].pc = "rerun"
    /\ d \in babysitter[b].rerun
    /\ d \notin row_locks
    /\ datums' =
          IF is_rerunable(datums[d])
          THEN mark_as_eligible_for_rerun(d)
          ELSE datums
    /\ output_files' = delete_for_datum(d)
    /\ babysitter' = [babysitter EXCEPT
            ![b].rerun = @ \ {d},
            ![b].pc = IF babysitter[b].rerun = {d} THEN "sleep" ELSE "rerun"]
    /\ UNCHANGED <<jobs, row_locks, k8s_jobs, running_pods, worker, calls,
                   plan, input_files,
                   planner, initially, threads, operation>>

BabysitterStep(b) ==
    \/ BabysitterLoadJobs(b)
    \/ \E j \in JobIds : BabysitterCheckJob(b, j)
    \/ BabysitterLoadRunning(b)
    \/ BabysitterLoadPods(b)
    \/ \E d \in DatumIds : BabysitterZombie(b, d)
    \/ BabysitterZombieJob(b)
    \/ BabysitterLoadRerunable(b)
    \/ \E d \in DatumIds : BabysitterRerun(b, d)

\* ------------------------------------ request handlers (falconerid/main.rs)
\* rest_api::DatumPatch: the bodies a client can send to PATCH /datums/<id>.
DatumPatch ==
    [status : Status, output : {"captured"},
     error_message : {Null, "failed"}, backtrace : {Null, "trace"}]

\* What a handler has answered: nothing yet, null, an error, or a datum id.
NoResult == -1
Rejected == -2

\* A handler thread: the job, pod and datum of its request, the status of
\* the job row it loaded, and its answer.
IdleCall ==
    [pc |-> "idle", job |-> NoJob, pod |-> NoPod, datum |-> NoDatum,
     loaded |-> Null, result |-> NoResult, retry_of |-> 0,
     batch |-> <<>>, pending |-> <<>>]

\* job_reserve_next_datum, lines 99-101, up to the lookup of an existing
\* reservation in Job::reserve_next_datum.  The request comes from pod p; r
\* is the earlier request of p that this one repeats because its response
\* was lost, or 0.
CallReserveLookup(c, j, p, r) ==
    /\ calls[c].pc = "idle"
    /\ j \in DOMAIN jobs
    /\ IF r = 0 THEN TRUE
       ELSE /\ r # c
            /\ calls[r].pc = "returned"
            /\ calls[r].pod = p
            /\ calls[r].job = j
            /\ calls[r].result > NoDatum
    /\ IF find_already_reserved_datum(j, p) # {}
       THEN \E d \in find_already_reserved_datum(j, p) :
                calls' = [calls EXCEPT ![c] =
                    [IdleCall EXCEPT !.pc = "returned", !.job = j,
                        !.pod = p, !.result = d, !.retry_of = r]]
       ELSE calls' = [calls EXCEPT ![c] =
                    [IdleCall EXCEPT !.pc = "select", !.job = j,
                        !.pod = p, !.retry_of = r]]
    /\ UNCHANGED <<jobs, datums, output_files, row_locks, k8s_jobs,
                   running_pods, worker, babysitter, plan, input_files,
                   planner, initially, threads, operation>>

\* Job::actually_reserve_next_datum: SELECT ... FOR UPDATE SKIP LOCKED.
CallReserveSelect(c) ==
    /\ calls[c].pc = "select"
    /\ IF ReadyUnlocked(calls[c].job) # {}
       THEN \E d \in ReadyUnlocked(calls[c].job) :
                /\ row_locks' = row_locks \cup {d}
                /\ calls' = [calls EXCEPT ![c].pc = "update",
                                          ![c].datum = d]
       ELSE /\ calls' = [calls EXCEPT ![c].pc = "returned",
                                      ![c].result = NoDatum]
            /\ UNCHANGED row_locks
    /\ UNCHANGED <<jobs, datums, output_files, k8s_jobs, running_pods,
                   worker, babysitter, plan, input_files,
                   planner, initially, threads, operation>>

\* Job::actually_reserve_next_datum: the UPDATE and the commit; the handler
\* answers with the datum.
CallReserveUpdate(c) ==
    /\ calls[c].pc = "update"
    /\ datums' = MarkRunning(calls[c].datum, node_name(calls[c].pod),
                             calls[c].pod)
    /\ row_locks' = row_locks \ {calls[c].datum}
    /\ calls' = [calls EXCEPT ![c].pc = "returned", ![c].datum = NoDatum,
                              ![c].result = calls[c].datum]
    /\ UNCHANGED <<jobs, output_files, k8s_jobs, running_pods, worker,
                   babysitter, plan, input_files,
                   planner, initially, threads, operation>>

\* (mutant) the match looks at the status only.
patch_accepted_by_status(patch) == patch.status \in {"done", "error"}

\* patch_datum, lines 120-146: the patches the match accepts.
patch_accepted(patch) ==
    \/ /\ patch.status = "done"
       /\ patch.error_message = Null
       /\ patch.backtrace = Null
    \/ /\ patch.status = "error"
       /\ patch.error_message # Null
       /\ patch.backtrace # Null

\* patch_datum, lines 120-140: the datums table after an accepted patch.
patch_datum(d, patch) ==
    IF patch.status = "done"
    THEN mark_as_done(d, patch.output)
    ELSE mark_as_error(d, patch.output, patch.error_message, patch.backtrace)

\* patch_datum, lines 118-146: load the datum and apply the patch, or
\* answer with an error.
CallPatchMark(c, d, patch) ==
    /\ calls[c].pc = "idle"
    /\ d \in DatumIds
    /\ d \notin row_locks
    /\ IF patch_accepted(patch)
       THEN /\ datums' = patch_datum(d, patch)
            /\ calls' = [calls EXCEPT ![c] =
                    [IdleCall EXCEPT !.pc = "update_job", !.datum = d]]
       ELSE /\ calls' = [calls EXCEPT ![c] =
                    [IdleCall EXCEPT !.pc = "returned",
                                     !.result = Rejected]]
            /\ UNCHANGED datums
    /\ UNCHANGED <<jobs, output_files, row_locks, k8s_jobs, running_pods,
                   worker, babysitter, plan, input_files,
                   planner, initially, threads, operation>>

\* patch_datum, line 150: Datum::update_job_status_if_done.
CallPatchUpdateJob(c) ==
    /\ calls[c].pc = "update_job"
    /\ jobs' = JobsAfterUpdate(datums[calls[c].datum].job_id)
    /\ calls' = [calls EXCEPT ![c].pc = "returned",
                              ![c].result = calls[c].datum,
                              ![c].datum = NoDatum]
    /\ UNCHANGED <<datums, output_files, row_locks, k8s_jobs, running_pods,
                   worker, babysitter, plan, input_files,
                   planner, initially, threads, operation>>

\* rest_api::OutputFilePatch: the id of an OutputFile row, here the datum
\* and the position of the row among the rows of the datum, and a status.
OutputFileIds == {<<d, i>> : d \in FirstDatums, i \in 1..MaxOutputFiles}

OutputFilePatch == [id : OutputFileIds, status : Status]

\* HttpStatus::NoContent
NoContent == 204

\* patch_output_files, lines 177-189: the ids of the patches of a status.
ids_with_status(batch, status) ==
    {batch[i].id : i \in {k \in DOMAIN batch : batch[k].status = status}}

\* patch_output_files, lines 180-188: a patch that is neither done nor
\* error makes the handler return an error.
batch_accepted(batch) ==
    \A i \in DOMAIN batch : batch[i].status \in {"done", "error"}

\* OutputFile::mark_ids_as_done / mark_ids_as_error: the UPDATE of the rows
\* whose id is among ids.
mark_ids(table, ids, status) ==
    [d \in DOMAIN table |->
        [i \in DOMAIN table[d] |->
            IF <<d, i>> \in ids THEN status ELSE table[d][i]]]

\* (mutant) every statement commits on its own.
autocommit_update(table, pending, ids, status) ==
    [table |-> mark_ids(table, ids, status), pending |-> pending]

\* conn.transaction, lines 192-196: an UPDATE inside the transaction is kept
\* with the transaction and leaves the table that others read as it is.
transaction_update(table, pending, ids, status) ==
    [table |-> table,
     pending |-> Append(pending, [ids |-> ids, status |-> status])]

\* conn.transaction, line 196: the commit applies the statements in order.
RECURSIVE transaction_commit(_, _)
transaction_commit(table, pending) ==
    IF pending = <<>> THEN table
    ELSE transaction_commit(
            mark_ids(table, Head(pending).ids, Head(pending).status),
            Tail(pending))

\* patch_output_files, lines 177-189: separate the patches by status, or
\* answer with an error.
CallPatchFilesSeparate(c, batch) ==
    /\ calls[c].pc = "idle"
    /\ IF batch_accepted(batch)
       THEN calls' = [calls EXCEPT ![c] =
                [IdleCall EXCEPT !.pc = "files_done", !.batch = batch]]
       ELSE calls' = [calls EXCEPT ![c] =
                [IdleCall EXCEPT !.pc = "returned", !.batch = batch,
                                 !.result = Rejected]]
    /\ UNCHANGED <<jobs, datums, output_files, row_locks, k8s_jobs,
                   running_pods, worker, babysitter, plan, input_files,
                   planner, initially, threads, operation>>

\* patch_output_files, line 193: OutputFile::mark_ids_as_done.
CallPatchFilesDone(c) ==
    /\ calls[c].pc = "files_done"
    /\ LET r == transaction_update(output_files, calls[c].pending,
                    ids_with_status(calls[c].batch, "done"), "done")
       IN  /\ output_files' = r.table
           /\ calls' = [calls EXCEPT ![c].pc = "files_error",
                                     ![c].pending = r.pending]
    /\ UNCHANGED <<jobs, datums, row_locks, k8s_jobs, running_pods,
                   worker, babysitter, plan, input_files,
                   planner, initially, threads, operation>>

\* patch_output_files, line 194: OutputFile::mark_ids_as_error.
CallPatchFilesError(c) ==
    /\ calls[c].pc = "files_error"
    /\ LET r == transaction_update(output_files, calls[c].pending,
                    ids_with_status(calls[c].batch, "error"), "error")
       IN  /\ output_files' = r.table
           /\ calls' = [calls EXCEPT ![c].pc = "files_commit",
                                     ![c].pending = r.pending]
    /\ UNCHANGED <<jobs, datums, row_locks, k8s_jobs, running_pods,
                   worker, babysitter, plan, input_files,
                   planner, initially, threads, operation>>

\* patch_output_files, lines 196-198: the commit and the answer.
CallPatchFilesCommit(c) ==
    /\ calls[c].pc = "files_commit"
    /\ output_files' = transaction_commit(output_files, calls[c].pending)
    /\ calls' = [calls EXCEPT ![c].pc = "returned", ![c].pending = <<>>,
                              ![c].result = NoContent]
    /\ UNCHANGED <<jobs, datums, row_locks, k8s_jobs, running_pods,
                   worker, babysitter, plan, input_files,
                   planner, initially, threads, operation>>

\* job_retry, line 87: Job::find loads the row of job j, outside of the
\* transaction of retry_job.
CallRetryFind(c, j) ==
    /\ calls[c].pc = "idle"
    /\ j \in DOMAIN jobs
    /\ calls' = [calls EXCEPT ![c] =
            [IdleCall EXCEPT !.pc = "retry", !.job = j,
                             !.loaded = jobs[j].status]]
    /\ UNCHANGED <<jobs, datums, output_files, row_locks, k8s_jobs,
                   running_pods, worker, babysitter, plan, input_files,
                   planner, initially, threads, operation>>

\* (mutant) any finished job can be retried.
retry_job_of_finished(status) == has_finished(status)

\* retry_job, lines 58-60: only a job in error can be retried.
retry_job_allowed(status) == status = "error"

\* (mutant) the datums of job j, whatever their status.
datums_with_any_status(j, status) == DatumsOf(j)

\* Job::datums_with_status
datums_with_status(j, status) ==
    {d \in DatumsOf(j) : datums[d].status = status}

\* retry_job, lines 56-106: the transaction, which tests the status of the
\* job row as job_retry loaded it.  The new job gets the id nj; each error
\* datum d of the job gets a fresh ready datum of nj (here with the id
\* NumDatums + d) with the column default of maximum_allowed_run_count that
\* d got, and a copy of each input file of d.
CallRetryJob(c, nj) ==
    /\ calls[c].pc = "retry"
    /\ nj \in JobIds \ DOMAIN jobs
    /\ IF retry_job_allowed(calls[c].loaded)
       THEN LET error_datums == datums_with_status(calls[c].job, "error")
                fresh == {NumDatums + d : d \in error_datums}
            IN  /\ jobs' = [x \in DOMAIN jobs \cup {nj} |->
                        IF x = nj THEN NewJob ELSE jobs[x]]
                /\ datums' = [x \in DatumIds \cup fresh |->
                        IF x \in DatumIds THEN datums[x]
                        ELSE NewDatum(nj,
                            datums[x - NumDatums].maximum_allowed_run_count)]
                /\ input_files' = [x \in DatumIds \cup fresh |->
                        IF x \in DatumIds THEN input_files[x]
                        ELSE {[uri |-> file.uri,
                               local_path |-> file.local_path] :
                                    file \in input_files[x - NumDatums]}]
                /\ output_files' = [x \in DatumIds \cup fresh |->
                        IF x \in DatumIds THEN output_files[x] ELSE <<>>]
                /\ plan' = [x \in DatumIds \cup fresh |->
                        IF x \in DatumIds THEN plan[x] ELSE AnyOutcome]
                /\ calls' = [calls EXCEPT ![c].pc = "launch", ![c].job = nj]
       ELSE /\ calls' = [calls EXCEPT ![c].pc = "returned",
                                      ![c].result = Rejected]
            /\ UNCHANGED <<jobs, datums, output_files, plan, input_files,
                   planner, initially, threads, operation>>
    /\ UNCHANGED <<row_locks, k8s_jobs, running_pods, worker, babysitter,
                   planner, initially, threads, operation>>

\* retry_job, line 109: start_batch_job submits the new job to Kubernetes,
\* or fails to.
CallRetryLaunch(c) ==
    /\ calls[c].pc = "launch"
    /\ \E deployed \in BOOLEAN :
        /\ k8s_jobs' = IF deployed THEN k8s_jobs \cup {calls[c].job}
                       ELSE k8s_jobs
        /\ calls' = [calls EXCEPT ![c].pc = "returned",
                        ![c].result = IF deployed THEN NoDatum ELSE Rejected]
    /\ UNCHANGED <<jobs, datums, output_files, row_locks, running_pods,
                   worker, babysitter, plan, input_files,
                   planner, initially, threads, operation>>

\* The thread of a finished handler takes the next request.
CallDone(c) ==
    /\ calls[c].pc = "returned"
    /\ \A r \in Calls : calls[r].retry_of # c
    /\ calls' = [calls EXCEPT ![c] = IdleCall]
    /\ UNCHANGED <<jobs, datums, output_files, row_locks, k8s_jobs,
                   running_pods, worker, babysitter, plan, input_files,
                   planner, initially, threads, operation>>

\* ------------------------------------------ the planner (falconeri/inputs.rs)
\* Strings are sequences of characters.
Gs == <<"g", "s", ":", "/", "/">>
S3 == <<"s", "3", ":", "/", "/">>
Pfs == <<"/", "p", "f", "s", "/">>

\* str::ends_with(char) and str::starts_with(&str)
ends_with(s, ch) == Len(s) > 0 /\ s[Len(s)] = ch
starts_with(s, prefix) ==
    Len(s) >= Len(prefix) /\ SubSeq(s, 1, Len(prefix)) = prefix

\* str::rfind(char): the position of the last ch in s, or NotFound.
NotFound == 0
rfind(s, ch) ==
    LET at == {i \in 1..Len(s) : s[i] = ch}
    IN  IF at = {} THEN NotFound ELSE CHOOSE i \in at : \A k \in at : k <= i

\* Result<T>: Ok(value) or Err(..).
Ok(value) == [ok |-> TRUE, value |-> value]
Err == [ok |-> FALSE, value |-> <<>>]

\* pipeline::Input and pipeline::Glob
Globs == {"WholeRepo", "TopLevelDirectoryEntries"}
Atom(uri, repo, glob) ==
    [kind |-> "atom", uri |-> uri, repo |-> repo, glob |-> glob]
Cross(inputs) == [kind |-> "cross", inputs |-> inputs]
Union(inputs) == [kind |-> "union", inputs |-> inputs]

\* uri_to_local_path: basename is &uri[pos..], the text from the last '/'
\* on, the '/' included.
uri_to_local_path(uri, repo) ==
    LET pos == rfind(uri, "/")
    IN  IF pos = NotFound THEN Err
        ELSE LET basename == SubSeq(uri, pos, Len(uri))
             IN  IF basename = <<>> THEN Err
                 ELSE Ok(Pfs \o repo \o basename)

\* CloudStorage::for_uri: the schemes that have a backend.
for_uri(uri) == starts_with(uri, Gs) \/ starts_with(uri, S3)

\* atom_to_datums_helper, lines 117-120: the uri with a '/' at its end.
base_of(uri) == IF ends_with(uri, "/") THEN uri ELSE uri \o <<"/">>

\* atom_to_datums_helper, lines 140-152: one datum of one input file per
\* listed uri; the `?` returns the first error.
RECURSIVE entries_to_datums(_, _)
entries_to_datums(file_uris, repo) ==
    IF file_uris = <<>> THEN Ok(<<>>)
    ELSE LET local_path == uri_to_local_path(Head(file_uris), repo)
         IN  IF ~local_path.ok THEN Err
             ELSE LET rest == entries_to_datums(Tail(file_uris), repo)
                  IN  IF ~rest.ok THEN Err
                      ELSE Ok(<< <<[uri |-> Head(file_uris),
                                    local_path |-> local_path.value]>> >>
                              \o rest.value)

\* (mutant) a whole repository is planned without listing it.
atom_without_listing(storage, uri, repo, glob) ==
    IF glob = "WholeRepo"
    THEN Ok(<< <<[uri |-> base_of(uri), local_path |-> Pfs \o repo]>> >>)
    ELSE IF ~for_uri(uri) THEN Err
    ELSE IF ~storage[uri].ok THEN Err
    ELSE entries_to_datums(storage[uri].value, repo)

\* atom_to_datums_helper; storage[uri] is what CloudStorage::list answers
\* for uri.  A datum (DatumData) is the sequence of its input files.
atom_to_datums_helper(storage, uri, repo, glob) ==
    IF ~for_uri(uri) THEN Err
    ELSE LET file_uris == storage[uri]
         IN  IF ~file_uris.ok THEN Err
             ELSE IF glob = "WholeRepo"
             THEN Ok(<< <<[uri |-> base_of(uri),
                           local_path |-> Pfs \o repo]>> >>)
             ELSE entries_to_datums(file_uris.value, repo)

\* cross_to_datums_helper, lines 183-194: the inner loop for one datum_0.
cross_row(datum_0, datums_1) ==
    [j \in 1..Len(datums_1) |-> datum_0 \o datums_1[j]]

\* (mutant) the loops the other way round: the last input iterates slower.
RECURSIVE cross_product_inner_first(_, _)
cross_product_inner_first(datums_0, datums_1) ==
    IF datums_1 = <<>> THEN <<>>
    ELSE [i \in 1..Len(datums_0) |-> datums_0[i] \o Head(datums_1)]
         \o cross_product_inner_first(datums_0, Tail(datums_1))

\* cross_to_datums_helper, lines 181-195: the outer loop.
RECURSIVE cross_product(_, _)
cross_product(datums_0, datums_1) ==
    IF datums_0 = <<>> THEN <<>>
    ELSE cross_row(Head(datums_0), datums_1)
         \o cross_product(Tail(datums_0), datums_1)

\* (mutant) a union drops the datums it already has.
union_without_duplicates(vec, more) ==
    vec \o SelectSeq(more,
        LAMBDA datum : \A i \in 1..Len(vec) : vec[i] # datum)

\* input_to_datums_helper, line 101: Vec::extend
extend(vec, more) == vec \o more

RECURSIVE input_to_datums_helper(_, _)
RECURSIVE cross_to_datums_helper(_, _)
RECURSIVE union_to_datums(_, _)

\* input_to_datums_helper, lines 99-103: the loop over the children of a
\* union, from the first; the `?` returns the first error.
union_to_datums(storage, inputs) ==
    IF inputs = <<>> THEN Ok(<<>>)
    ELSE LET child == input_to_datums_helper(storage, Head(inputs))
         IN  IF ~child.ok THEN Err
             ELSE LET rest == union_to_datums(storage, Tail(inputs))
                  IN  IF ~rest.ok THEN Err
                      ELSE Ok(extend(child.value, rest.value))

cross_to_datums_helper(storage, inputs) ==
    LET n == Len(inputs)
    IN  IF n = 0 THEN Ok(<<>>)
        ELSE IF n = 1 THEN input_to_datums_helper(storage, inputs[1])
        ELSE LET datums_0 ==
                    cross_to_datums_helper(storage, SubSeq(inputs, 1, n - 1))
             IN  IF ~datums_0.ok THEN Err
                 ELSE LET datums_1 ==
                            input_to_datums_helper(storage, inputs[n])
                      IN  IF ~datums_1.ok THEN Err
                          ELSE Ok(cross_product(datums_0.value,
                                                datums_1.value))

input_to_datums_helper(storage, input) ==
    IF input.kind = "atom"
    THEN atom_to_datums_helper(storage, input.uri, input.repo, input.glob)
    ELSE IF input.kind = "cross"
    THEN cross_to_datums_helper(storage, input.inputs)
    ELSE union_to_datums(storage, input.inputs)

\* DatumData::into_new_datum_and_input_files for the datum that gets the
\* id datum_id.
into_new_input_files(datum, job_id, datum_id) ==
    [f \in 1..Len(datum) |->
        [job_id |-> job_id, datum_id |-> datum_id,
         uri |-> datum[f].uri, local_path |-> datum[f].local_path]]

\* input_to_datums, lines 73-77: all_input_files after the datums from
\* position k on; the datum at position k gets the fresh id k.
RECURSIVE all_input_files(_, _, _)
all_input_files(datums_data, job_id, k) ==
    IF k > Len(datums_data) THEN <<>>
    ELSE into_new_input_files(datums_data[k], job_id, k)
         \o all_input_files(datums_data, job_id, k + 1)

\* input_to_datums: the two vectors for the bulk insert.
input_to_datums(storage, job_id, input) ==
    LET planned == input_to_datums_helper(storage, input)
    IN  IF ~planned.ok THEN Err
        ELSE Ok([datums |-> [k \in 1..Len(planned.value) |->
                                [id |-> k, job_id |-> job_id]],
                 input_files |-> all_input_files(planned.value, job_id, 1)])

\* No operation under retry_if_appropriate.
NoOperation == [pc |-> "none"]

\* No thread under observation.
NoThreads == <<>>

\* No snapshot of the tables.
NoSnapshot == [jobs |-> <<>>, datums |-> <<>>, output_files |-> <<>>]

\* No POST /jobs request.
NoPlanner ==
    [input |-> [kind |-> "none"], storage |-> <<>>, planned |-> FALSE,
     out |-> Err]

\* ------------------------------------------------------- the environment
\* Time passes: job j is now more than 15 minutes old.
JobGetsOld(j) ==
    /\ j \in DOMAIN jobs
    /\ ~jobs[j].old
    /\ jobs' = [jobs EXCEPT ![j].old = TRUE]
    /\ UNCHANGED <<datums, output_files, row_locks, k8s_jobs, running_pods,
                   worker, babysitter, calls, plan, input_files,
                   planner, initially, threads, operation>>

\* The Kubernetes job of j is deleted (by its TTL or by an operator).
K8sJobVanishes(j) ==
    /\ j \in k8s_jobs
    /\ k8s_jobs' = k8s_jobs \ {j}
    /\ UNCHANGED <<jobs, datums, output_files, row_locks, running_pods,
                   worker, babysitter, calls, plan, input_files,
                   planner, initially, threads, operation>>

\* ------------------------------------------------------------ the system
\* The state after run_job committed its transaction for a job of nd datums
\* that all allow max runs: the job is running and its datums are ready.
\* The submission to Kubernetes succeeded, and the pods in pods run a
\* worker, or it failed.  The replicas in sitters run a babysitter.
InitSystem(nd, max, pods, sitters, plans) ==
    /\ jobs = [j \in {FirstJob} |-> NewJob]
    /\ datums = [d \in 1..nd |-> NewDatum(FirstJob, max)]
    /\ output_files = [d \in 1..nd |-> <<>>]
    /\ row_locks = {}
    /\ k8s_jobs \in {{FirstJob}, {}}
    /\ running_pods = IF FirstJob \in k8s_jobs THEN pods ELSE {}
    /\ worker = [p \in Pods |->
            IF p \in running_pods THEN IdleWorker
            ELSE [IdleWorker EXCEPT !.pc = "dead"]]
    /\ babysitter = [b \in Babysitters |->
            IF b \in sitters THEN IdleBabysitter
            ELSE [IdleBabysitter EXCEPT !.pc = "off"]]
    /\ calls = [c \in Calls |-> IdleCall]
    /\ plan \in [1..nd -> plans]
    /\ input_files = [d \in 1..nd |-> PlannedInputFiles(d)]
    /\ planner = NoPlanner
    /\ initially = NoSnapshot
    /\ threads = NoThreads
    /\ operation = NoOperation

Init ==
    \E max \in 1..MaxAllowedRuns :
        InitSystem(NumDatums, max, Pods, {1}, {AnyOutcome})

\* The scheduler: workers, babysitters and the cluster.
Next ==
    \/ \E p \in Pods : WorkerStep(p)
    \/ \E p \in Pods : PodDies(p)
    \/ \E b \in Babysitters : BabysitterStep(b)
    \/ \E j \in JobIds : JobGetsOld(j)
    \/ \E j \in JobIds : K8sJobVanishes(j)

Spec == Init /\ [][Next]_vars

\* The same scheduler with a babysitter in every falconerid replica.
\* A job of one datum keeps the state space small.
InitReplicas ==
    \E max \in 1..MaxAllowedRuns :
        InitSystem(1, max, Pods, Babysitters, {AnyOutcome})

SpecReplicas == InitReplicas /\ [][Next]_vars

\* The retry scenario: a job of one datum that allows RetryScenarioRuns runs,
\* of which all but the last fail; one worker, one babysitter, and the
\* Kubernetes job stays.  The worker keeps running unless its pod dies, and
\* the babysitter ticks forever.
InitRetry ==
    /\ InitSystem(1, RetryScenarioRuns, {1}, {1}, {RetryScenarioRuns - 1})
    /\ k8s_jobs = {FirstJob}

NextRetry ==
    \/ WorkerStep(1)
    \/ PodDies(1)
    \/ BabysitterStep(1)

SpecRetry ==
    /\ InitRetry
    /\ [][NextRetry]_vars
    /\ WF_vars(WorkerStep(1))
    /\ WF_vars(BabysitterStep(1))

\* The scheduler of a job of one datum whose Kubernetes job stays: every
\* worker keeps running unless its pod dies, and every babysitter ticks
\* forever.
InitFair ==
    /\ InitSystem(1, MaxAllowedRuns, Pods, Babysitters, {AnyOutcome})
    /\ k8s_jobs = {FirstJob}

NextFair ==
    \/ \E p \in Pods : WorkerStep(p)
    \/ \E p \in Pods : PodDies(p)
    \/ \E b \in Babysitters : BabysitterStep(b)

SpecFair ==
    /\ InitFair
    /\ [][NextFair]_vars
    /\ \A p \in Pods : WF_vars(WorkerStep(p))
    /\ \A b \in Babysitters : WF_vars(BabysitterStep(b))

\* The scheduler of a job of one datum with one worker and a babysitter in
\* every replica, and an operator who retries the job once it has failed.
InitOperator ==
    \E max \in 1..MaxAllowedRuns :
        InitSystem(1, max, {1}, Babysitters, {AnyOutcome})

NextOperator ==
    \/ Next
    \/ CallRetryFind(1, FirstJob)
    \/ CallRetryJob(1, RetryJobId)
    \/ CallRetryLaunch(1)

SpecOperator == InitOperator /\ [][NextOperator]_vars

\* ------------------------------------------------- run_job (start_job.rs)
\* run_job, lines 15-39 (post_job, main.rs:58-64): build the job and plan
\* its datums, which lists the cloud storage of every atom.  A planning
\* error is the handler's answer.
CallRunPlan(c, job_id) ==
    /\ calls[c].pc = "idle"
    /\ planner.input.kind # "none"
    /\ ~planner.planned
    /\ job_id \in JobIds \ DOMAIN jobs
    /\ LET planned == input_to_datums(planner.storage, job_id, planner.input)
       IN  /\ planner' = [planner EXCEPT !.planned = TRUE, !.out = planned]
           /\ calls' = [calls EXCEPT ![c] =
                    IF planned.ok
                    THEN [IdleCall EXCEPT !.pc = "run_insert",
                                          !.job = job_id]
                    ELSE [IdleCall EXCEPT !.pc = "returned",
                                          !.job = job_id,
                                          !.result = Rejected]]
    /\ UNCHANGED <<jobs, datums, output_files, row_locks, k8s_jobs,
                   running_pods, worker, babysitter, plan, input_files,
                   initially, threads, operation>>

\* The rows of table input_files of the datum with id d among the planned
\* rows; rows of a datum that agree on uri and local_path count once.
InputFilesOf(new_input_files, d) ==
    {[uri |-> new_input_files[i].uri,
      local_path |-> new_input_files[i].local_path] :
        i \in {k \in 1..Len(new_input_files) :
                    new_input_files[k].datum_id = d}}

\* run_job, lines 42-47: the transaction that inserts the job, its datums
\* and their input files.
CallRunInsert(c) ==
    /\ calls[c].pc = "run_insert"
    /\ LET new_datums == planner.out.value.datums
           new_input_files == planner.out.value.input_files
           ids == {new_datums[k].id : k \in 1..Len(new_datums)}
       IN  /\ jobs' = [x \in DOMAIN jobs \cup {calls[c].job} |->
                    IF x = calls[c].job THEN NewJob ELSE jobs[x]]
           /\ datums' = [d \in DatumIds \cup ids |->
                    IF d \in DatumIds THEN datums[d]
                    ELSE NewDatum(calls[c].job, MaxAllowedRuns)]
           /\ input_files' = [d \in DatumIds \cup ids |->
                    IF d \in DatumIds THEN input_files[d]
                    ELSE InputFilesOf(new_input_files, d)]
           /\ output_files' = [d \in DatumIds \cup ids |->
                    IF d \in DatumIds THEN output_files[d] ELSE <<>>]
           /\ plan' = [d \in DatumIds \cup ids |->
                    IF d \in DatumIds THEN plan[d] ELSE AnyOutcome]
    /\ calls' = [calls EXCEPT ![c].pc = "run_launch"]
    /\ UNCHANGED <<row_locks, k8s_jobs, running_pods, worker, babysitter,
                   planner, initially, threads, operation>>

\* run_job, line 50: start_batch_job submits the job to Kubernetes, which
\* starts its pods, or fails to; the rows that the transaction of lines
\* 42-47 committed are not touched.
CallRunLaunch(c) ==
    /\ calls[c].pc = "run_launch"
    /\ \E deployed \in BOOLEAN :
        /\ k8s_jobs' = IF deployed THEN k8s_jobs \cup {calls[c].job}
                       ELSE k8s_jobs
        /\ running_pods' = IF deployed THEN Pods ELSE running_pods
        /\ worker' = IF deployed THEN [p \in Pods |-> IdleWorker] ELSE worker
        /\ calls' = [calls EXCEPT ![c].pc = "returned",
                        ![c].result = IF deployed THEN NoDatum ELSE Rejected]
    /\ UNCHANGED <<jobs, datums, output_files, row_locks, babysitter, plan,
                   input_files,
                   planner, initially, threads, operation>>

\* The state after run_job committed its transaction (lines 42-47) for a
\* job of one datum and before it submits the job to Kubernetes: the job is
\* running, its datum is ready, and the cluster knows nothing of the job.
\* One replica runs a babysitter.
InitLaunch ==
    /\ jobs = [j \in {FirstJob} |-> NewJob]
    /\ datums = [d \in {1} |-> NewDatum(FirstJob, MaxAllowedRuns)]
    /\ output_files = [d \in {1} |-> <<>>]
    /\ row_locks = {}
    /\ k8s_jobs = {}
    /\ running_pods = {}
    /\ worker = [p \in Pods |-> [IdleWorker EXCEPT !.pc = "dead"]]
    /\ babysitter = [b \in Babysitters |->
            IF b = 1 THEN IdleBabysitter
            ELSE [IdleBabysitter EXCEPT !.pc = "off"]]
    /\ calls = [c \in Calls |->
            IF c = 1
            THEN [IdleCall EXCEPT !.pc = "run_launch", !.job = FirstJob]
            ELSE IdleCall]
    /\ plan = [d \in {1} |-> AnyOutcome]
    /\ input_files = [d \in {1} |-> PlannedInputFiles(d)]
    /\ planner = NoPlanner
    /\ initially = NoSnapshot
    /\ threads = NoThreads
    /\ operation = NoOperation

NextLaunch ==
    \/ CallRunLaunch(1)
    \/ Next

\* The babysitter ticks forever, time passes, and the handler of POST /jobs
\* gets its answer from Kubernetes.
SpecLaunch ==
    /\ InitLaunch
    /\ [][NextLaunch]_vars
    /\ WF_vars(CallRunLaunch(1))
    /\ WF_vars(BabysitterStep(1))
    /\ WF_vars(JobGetsOld(FirstJob))

\* ------------------------------------------------------------ the planner
\* Bounds of the pipeline specs: the inputs of a cross and of a union, and
\* the entries a listing returns.
MaxCross == 3
MaxUnion == 2
MaxListing == 2

\* The sequences over S of at most n elements.
SeqsUpTo(S, n) == UNION {[1..k -> S] : k \in 0..n}

\* The uris of the atoms: a directory without and one with the final '/',
\* and one with a scheme that has no backend.
GsUri == Gs \o <<"b", "/", "d">>
S3Uri == S3 \o <<"b", "/">>
FtpUri == <<"f", "t", "p", ":", "/", "/", "b">>
Uris == {GsUri, S3Uri, FtpUri}
Repo == <<"r">>

\* The names of the entries of a directory: a file and a subdirectory.
EntryNames == {<<"x">>, <<"e", "/">>}

\* What CloudStorage::list may answer for uri: an error, or the uris of up
\* to MaxListing distinct entries in any order.
Listings(uri) ==
    {Err} \cup
    {Ok([i \in 1..Len(names) |-> base_of(uri) \o names[i]]) :
        names \in {s \in SeqsUpTo(EntryNames, MaxListing) :
                      \A i, k \in 1..Len(s) : i # k => s[i] # s[k]}}

Storages ==
    {st \in [{u \in Uris : for_uri(u)} -> UNION {Listings(u) : u \in Uris}] :
        \A u \in DOMAIN st : st[u] \in Listings(u)}

Atoms == {Atom(uri, Repo, glob) : uri \in Uris, glob \in Globs}
NestedAtoms ==
    {Atom(GsUri, Repo, "TopLevelDirectoryEntries"),
     Atom(S3Uri, Repo, "WholeRepo")}
Pairs ==
    NestedAtoms
    \cup {Cross(<<a, b>>) : a, b \in NestedAtoms}
    \cup {Union(<<a, b>>) : a, b \in NestedAtoms}

\* The "input" clauses of the pipeline specs: atoms, crosses and unions of
\* atoms, and crosses and unions of two inputs that are crosses or unions
\* themselves.
Inputs ==
    Atoms
    \cup {Cross(s) : s \in SeqsUpTo(Atoms, MaxCross)}
    \cup {Union(s) : s \in SeqsUpTo(Atoms, MaxUnion)}
    \cup {Cross(<<a, b>>) : a, b \in Pairs}
    \cup {Union(<<a, b>>) : a, b \in Pairs}

\* An empty database and cluster, and a POST /jobs request with any of the
\* pipeline specs, over any state of the cloud storage.
InitPlan ==
    /\ jobs = <<>>
    /\ datums = <<>>
    /\ output_files = <<>>
    /\ row_locks = {}
    /\ k8s_jobs = {}
    /\ running_pods = {}
    /\ worker = [p \in Pods |-> [IdleWorker EXCEPT !.pc = "dead"]]
    /\ babysitter = [b \in Babysitters |->
            [IdleBabysitter EXCEPT !.pc = "off"]]
    /\ calls = [c \in Calls |-> IdleCall]
    /\ plan = <<>>
    /\ input_files = <<>>
    /\ planner \in [input : Inputs, storage : Storages, planned : {FALSE},
                     out : {Err}]
    /\ initially = NoSnapshot
    /\ threads = NoThreads
    /\ operation = NoOperation

NextPlan ==
    \/ CallRunPlan(1, FirstJob)
    \/ CallRunInsert(1)
    \/ CallRunLaunch(1)

SpecPlan == InitPlan /\ [][NextPlan]_vars


\* ---------------------------------------------- Job::update_status_if_done
\* A caller (a worker, a request handler or a babysitter) runs
\* Job::update_status_if_done on job j.
CallUpdateStatus(c, j) ==
    /\ calls[c].pc = "idle"
    /\ j \in DOMAIN jobs
    /\ jobs' = JobsAfterUpdate(j)
    /\ calls' = [calls EXCEPT ![c] =
            [IdleCall EXCEPT !.pc = "returned", !.job = j]]
    /\ UNCHANGED <<datums, output_files, row_locks, k8s_jobs, running_pods,
                   worker, babysitter, plan, input_files,
                   planner, initially, threads, operation>>

\* The rows of table datums that the schema allows for a datum of job j
\* that has not been reserved more often than it allows.
DatumRows(j) ==
    {row \in [status : Status, job_id : {j}, error_message : {Null},
              node_name : {NoNode}, pod_name : {NoPod}, backtrace : {Null},
              output : {Null}, attempted_run_count : 0..MaxAllowedRuns,
              maximum_allowed_run_count : 1..MaxAllowedRuns] :
        row.attempted_run_count <= row.maximum_allowed_run_count}

\* Any job of up to NumDatums datums, in any status, with datums in any
\* status.
InitDecision ==
    /\ jobs \in [{FirstJob} -> [status : Status, old : {FALSE}]]
    /\ \E n \in 0..NumDatums :
        /\ datums \in [1..n -> DatumRows(FirstJob)]
        /\ output_files = [d \in 1..n |-> <<>>]
        /\ plan = [d \in 1..n |-> AnyOutcome]
        /\ input_files = [d \in 1..n |-> PlannedInputFiles(d)]
    /\ planner = NoPlanner
    /\ initially = NoSnapshot
    /\ threads = NoThreads
    /\ operation = NoOperation
    /\ row_locks = {}
    /\ k8s_jobs = {FirstJob}
    /\ running_pods = {}
    /\ worker = [p \in Pods |-> [IdleWorker EXCEPT !.pc = "dead"]]
    /\ babysitter = [b \in Babysitters |->
            [IdleBabysitter EXCEPT !.pc = "off"]]
    /\ calls = [c \in Calls |-> IdleCall]

NextDecision == CallUpdateStatus(1, FirstJob)

SpecDecision == InitDecision /\ [][NextDecision]_vars
\* ------------------------------------------------------------- retry_job
\* POST /jobs/<id>/retry on any job of up to NumDatums datums, in any
\* status, with datums in any status, while another caller runs
\* Job::update_status_if_done on the job.
NextRetryJob ==
    \/ CallRetryFind(1, FirstJob)
    \/ CallRetryJob(1, RetryJobId)
    \/ CallRetryLaunch(1)
    \/ CallUpdateStatus(2, FirstJob)

SpecRetryJob == InitDecision /\ [][NextRetryJob]_vars

\* ------------------------------------------------ the reservation requests
\* A job of NumDatums ready datums and nothing but reserve_next_datum
\* requests, each handler thread serving one request.
InitReserve ==
    /\ InitSystem(NumDatums, 1, {}, {}, {AnyOutcome})
    /\ k8s_jobs = {FirstJob}

NextReserve ==
    \/ \E c \in Calls, p \in CallerPods, r \in Calls \cup {0} :
            CallReserveLookup(c, FirstJob, p, r)
    \/ \E c \in Calls : CallReserveSelect(c)
    \/ \E c \in Calls : CallReserveUpdate(c)

SpecReserve == InitReserve /\ [][NextReserve]_vars

\* ---------------------------------------------------- the request handlers
\* The same job, with reserve_next_datum and PATCH /datums requests from any
\* client.
NextApi ==
    \/ NextReserve
    \/ \E c \in Calls, d \in DatumIds, patch \in DatumPatch :
            CallPatchMark(c, d, patch)
    \/ \E c \in Calls : CallPatchUpdateJob(c)
    \/ \E c \in Calls : CallDone(c)

SpecApi == InitReserve /\ [][NextApi]_vars


\* ------------------------------------------------- the babysitter replicas
\* The rows a datum of job j can have while the job runs and its workers are
\* gone: never reserved, reserved by a pod (which may have died since), done
\* on its first run, or failed on a run.
TickRows(j) ==
    {NewDatum(j, MaxAllowedRuns)}
    \cup {[NewDatum(j, MaxAllowedRuns) EXCEPT
                !.status = "running", !.pod_name = p,
                !.node_name = node_name(p), !.attempted_run_count = n] :
            p \in Pods, n \in 1..MaxAllowedRuns}
    \cup {[NewDatum(j, MaxAllowedRuns) EXCEPT
                !.status = "done", !.pod_name = 1,
                !.node_name = node_name(1), !.attempted_run_count = 1,
                !.output = "captured"]}
    \cup {[NewDatum(j, MaxAllowedRuns) EXCEPT
                !.status = "error", !.pod_name = 1,
                !.node_name = node_name(1), !.attempted_run_count = n,
                !.output = "captured", !.error_message = "failed",
                !.backtrace = "trace"] : n \in 1..MaxAllowedRuns}

\* The output file rows of a datum with the given row: none before the first
\* run, one per run otherwise, marked as the worker's last PATCH left it.
TickOutputFiles(row) ==
    IF row.attempted_run_count = 0 THEN <<>> ELSE <<row.status>>

\* A running job in any state its workers can leave it in, no worker request
\* in flight, and a babysitter about to tick in every falconerid replica.
\* Neither the cluster nor the clock changes while they tick.
InitTicks ==
    /\ jobs \in [{FirstJob} -> [status : {"running"}, old : BOOLEAN]]
    /\ datums \in [1..NumDatums -> TickRows(FirstJob)]
    /\ output_files = [d \in 1..NumDatums |-> TickOutputFiles(datums[d])]
    /\ row_locks = {}
    /\ k8s_jobs \in {{FirstJob}, {}}
    /\ running_pods \in {{}, {1}, Pods}
    /\ worker = [p \in Pods |-> [IdleWorker EXCEPT !.pc = "dead"]]
    /\ babysitter = [b \in Babysitters |-> IdleBabysitter]
    /\ calls = [c \in Calls |-> IdleCall]
    /\ plan = [d \in 1..NumDatums |-> AnyOutcome]
    /\ input_files = [d \in 1..NumDatums |-> PlannedInputFiles(d)]
    /\ planner = NoPlanner
    /\ initially = [jobs |-> jobs, datums |-> datums,
                    output_files |-> output_files]
    /\ threads = NoThreads
    /\ operation = NoOperation

NextTicks == \E b \in Babysitters : BabysitterStep(b)

\* start_babysitter: every replica's babysitter thread ticks forever.
SpecTicks ==
    /\ InitTicks
    /\ [][NextTicks]_vars
    /\ \A b \in Babysitters : WF_vars(BabysitterStep(b))

\* ------------------------------------- transactions and adapter calls
\* The calls that a thread of falconerid makes, in the order of the code:
\* "begin" and "commit" are the ends of conn.transaction (nested ones are
\* savepoints), "lock" is lock_for_update on a row, "query" and "write" are
\* other statements, and "adapter" is a call to cloud storage or to kubectl.
Call(op, what) == [op |-> op, what |-> what]

JobRow(j) == <<"jobs", j>>
DatumRow(d) == <<"datums", d>>

\* Job::update_status_if_done, job.rs lines 237-310
update_status_if_done_calls(j) ==
    <<Call("begin", "update_status_if_done"),
      Call("lock", JobRow(j)),
      Call("query", "datum_status_counts"),
      Call("write", "jobs.status"),
      Call("commit", "update_status_if_done")>>

\* run_job, start_job.rs lines 35-50
run_job_calls ==
    <<Call("adapter", "storage.list"),
      Call("begin", "run_job"),
      Call("write", "NewJob::insert"),
      Call("write", "NewDatum::insert_all"),
      Call("write", "NewInputFile::insert_all"),
      Call("commit", "run_job"),
      Call("adapter", "kubernetes::deploy")>>

\* retry_job, start_job.rs lines 56-109
retry_job_calls ==
    <<Call("begin", "retry_job"),
      Call("query", "datums_with_status"),
      Call("query", "InputFile::for_datums"),
      Call("write", "NewJob::insert"),
      Call("write", "NewDatum::insert_all"),
      Call("write", "NewInputFile::insert_all"),
      Call("commit", "retry_job"),
      Call("adapter", "kubernetes::deploy")>>

\* (mutant) the job names are fetched for each job, under its row lock.
RECURSIVE job_names_under_lock(_)
job_names_under_lock(found) ==
    IF found = <<>> THEN <<>>
    ELSE <<Call("begin", "check_for_finished_and_vanished_jobs"),
           Call("lock", JobRow(Head(found))),
           Call("adapter", "get_all_job_names")>>
         \o update_status_if_done_calls(Head(found))
         \o <<Call("write", "Job::mark_as_error"),
              Call("commit", "check_for_finished_and_vanished_jobs")>>
         \o job_names_under_lock(Tail(found))

\* check_for_finished_and_vanished_jobs, babysitter.rs lines 92-120: the
\* transaction on each of the jobs found.
RECURSIVE job_transactions(_)
job_transactions(found) ==
    IF found = <<>> THEN <<>>
    ELSE <<Call("begin", "check_for_finished_and_vanished_jobs"),
           Call("lock", JobRow(Head(found)))>>
         \o update_status_if_done_calls(Head(found))
         \o <<Call("write", "Job::mark_as_error"),
              Call("commit", "check_for_finished_and_vanished_jobs")>>
         \o job_transactions(Tail(found))

\* check_for_finished_and_vanished_jobs, babysitter.rs lines 90-91 and the
\* loop over the jobs found.
check_for_finished_and_vanished_jobs(found) ==
    <<Call("query", "Job::find_by_status"),
      Call("adapter", "get_all_job_names")>>
    \o job_transactions(found)

\* check_for_zombie_datums, babysitter.rs lines 128-153: the transaction on
\* each zombie and the update of its job.
RECURSIVE zombie_transactions(_)
zombie_transactions(found) ==
    IF found = <<>> THEN <<>>
    ELSE <<Call("begin", "check_for_zombie_datums"),
           Call("lock", DatumRow(Head(found))),
           Call("write", "Datum::mark_as_error"),
           Call("commit", "check_for_zombie_datums"),
           Call("query", "Job::find")>>
         \o update_status_if_done_calls(FirstJob)
         \o zombie_transactions(Tail(found))

\* check_for_zombie_datums with Datum::zombies, datum.rs lines 73-85.
check_for_zombie_datums(found) ==
    <<Call("query", "Datum::active_with_status"),
      Call("adapter", "get_running_pod_names")>>
    \o zombie_transactions(found)

\* check_for_datums_which_can_be_rerun, babysitter.rs lines 162-200: the
\* transaction on each candidate.
RECURSIVE rerun_transactions(_)
rerun_transactions(found) ==
    IF found = <<>> THEN <<>>
    ELSE <<Call("begin", "check_for_datums_which_can_be_rerun"),
           Call("lock", DatumRow(Head(found))),
           Call("write", "Datum::mark_as_eligible_for_rerun"),
           Call("write", "OutputFile::delete_for_datum"),
           Call("commit", "check_for_datums_which_can_be_rerun")>>
         \o rerun_transactions(Tail(found))

check_for_datums_which_can_be_rerun(found) ==
    <<Call("query", "Datum::rerunable")>> \o rerun_transactions(found)

\* check_running_jobs, babysitter.rs lines 76-84, when its queries find the
\* given jobs, zombies and datums to rerun.
check_running_jobs(found_jobs, found_zombies, found_reruns) ==
    check_for_finished_and_vanished_jobs(found_jobs)
    \o check_for_zombie_datums(found_zombies)
    \o check_for_datums_which_can_be_rerun(found_reruns)

\* A thread that is about to make the first of the given calls.
Thread(calls_) == [calls |-> calls_, pc |-> 1, depth |-> 0, locks |-> {}]

ThreadIds == {"run_job", "retry_job", "babysitter"}

\* The next call of thread t, if it has one.
Running(t) == threads[t].pc <= Len(threads[t].calls)
NextCall(t) == threads[t].calls[threads[t].pc]

\* The rows that threads other than t have locked.
LockedByOthers(t) ==
    UNION {threads[u].locks : u \in DOMAIN threads \ {t}}

\* Thread t makes its next call.  A lock waits for the row; the commit of
\* the outermost transaction releases the locks of the thread.
ThreadStep(t) ==
    /\ t \in DOMAIN threads
    /\ Running(t)
    /\ LET call == NextCall(t)
           depth == threads[t].depth
       IN  CASE call.op = "begin" ->
                    threads' = [threads EXCEPT ![t].pc = @ + 1,
                                               ![t].depth = depth + 1]
             [] call.op = "lock" ->
                    /\ call.what \notin LockedByOthers(t)
                    /\ threads' = [threads EXCEPT
                            ![t].pc = @ + 1,
                            ![t].locks = @ \cup {call.what}]
             [] call.op = "commit" ->
                    threads' = [threads EXCEPT
                            ![t].pc = @ + 1,
                            ![t].depth = depth - 1,
                            ![t].locks = IF depth = 1 THEN {} ELSE @]
             [] OTHER ->
                    threads' = [threads EXCEPT ![t].pc = @ + 1]
    /\ UNCHANGED <<jobs, datums, output_files, row_locks, k8s_jobs,
                   running_pods, worker, babysitter, calls, plan,
                   input_files, planner, initially,
                   operation>>

\* The lists of rows that a query of the babysitter can find.
MaxFound == 1
Found(ids) == UNION {[1..n -> ids] : n \in 0..MaxFound}

\* run_babysitter, babysitter.rs lines 59-73: after a tick, the next one.
BabysitterTick(t) ==
    /\ t = "babysitter"
    /\ ~Running(t)
    /\ \E found_jobs \in Found({FirstJob}),
          found_zombies \in Found(1..NumDatums),
          found_reruns \in Found(1..NumDatums) :
            threads' = [threads EXCEPT ![t] =
                Thread(check_running_jobs(found_jobs, found_zombies,
                                          found_reruns))]
    /\ UNCHANGED <<jobs, datums, output_files, row_locks, k8s_jobs,
                   running_pods, worker, babysitter, calls, plan,
                   input_files, planner, initially,
                   operation>>

\* A POST /jobs request, a POST /jobs/<id>/retry request and the babysitter
\* thread of one replica, on a database with one job.
InitLocks ==
    /\ jobs = [j \in {FirstJob} |-> NewJob]
    /\ datums = [d \in 1..NumDatums |-> NewDatum(FirstJob, MaxAllowedRuns)]
    /\ output_files = [d \in 1..NumDatums |-> <<>>]
    /\ row_locks = {}
    /\ k8s_jobs = {FirstJob}
    /\ running_pods = {}
    /\ worker = [p \in Pods |-> [IdleWorker EXCEPT !.pc = "dead"]]
    /\ babysitter = [b \in Babysitters |->
                        [IdleBabysitter EXCEPT !.pc = "off"]]
    /\ calls = [c \in Calls |-> IdleCall]
    /\ plan = [d \in 1..NumDatums |-> AnyOutcome]
    /\ input_files = [d \in 1..NumDatums |-> PlannedInputFiles(d)]
    /\ planner = NoPlanner
    /\ initially = NoSnapshot
    /\ threads = [t \in ThreadIds |->
            CASE t = "run_job" -> Thread(run_job_calls)
              [] t = "retry_job" -> Thread(retry_job_calls)
              [] OTHER -> Thread(<<>>)]
    /\ operation = NoOperation

NextLocks ==
    \/ \E t \in ThreadIds : ThreadStep(t)
    \/ BabysitterTick("babysitter")

SpecLocks == InitLocks /\ [][NextLocks]_vars

\* ------------------------------- ConnectVia (falconeri_common/connect_via.rs)
ConnectVia == {"Proxy", "Cluster"}

\* (mutant) every caller retries.
should_retry_always(via) == TRUE

\* ConnectVia::should_retry_by_default
should_retry_by_default(via) ==
    CASE via = "Proxy" -> FALSE
      [] via = "Cluster" -> TRUE

\* retry_if_appropriate, lines 46-58: the closure around f wraps an error of
\* f as transient or permanent.
wrap_error(via, err) ==
    IF should_retry_by_default(via)
    THEN [kind |-> "Transient", err |-> err]
    ELSE [kind |-> "Permanent", err |-> err]

\* retry_if_appropriate, lines 67-70: the error of either kind, unwrapped.
unwrap_error(e) == [ok |-> FALSE, value |-> e.err]

\* retry_if_appropriate, line 64, in backoff::retry: the operation runs once
\* more.  An Ok is returned, a permanent error is returned, and a transient
\* error is kept for the backoff.
RetryInvoke ==
    /\ operation.pc = "invoke"
    /\ LET n == operation.invoked + 1
           outcome == operation.outcomes[n]
       IN  IF outcome.ok
           THEN operation' = [operation EXCEPT
                    !.pc = "returned", !.invoked = n, !.result = outcome]
           ELSE LET e == wrap_error(operation.via, outcome.value)
                IN  IF e.kind = "Permanent"
                    THEN operation' = [operation EXCEPT
                            !.pc = "returned", !.invoked = n,
                            !.result = unwrap_error(e)]
                    ELSE operation' = [operation EXCEPT
                            !.pc = "backoff", !.invoked = n, !.failed = e]
    /\ UNCHANGED <<jobs, datums, output_files, row_locks, k8s_jobs,
                   running_pods, worker, babysitter, calls, plan,
                   input_files, planner, initially, threads>>

\* backoff::retry after a transient error: ExponentialBackoff::next_backoff
\* gives an interval while the elapsed time is within max_elapsed_time, and
\* the thread sleeps for it.
RetrySleep ==
    /\ operation.pc = "backoff"
    /\ operation.slept < operation.budget
    /\ operation' = [operation EXCEPT !.pc = "invoke", !.slept = @ + 1]
    /\ UNCHANGED <<jobs, datums, output_files, row_locks, k8s_jobs,
                   running_pods, worker, babysitter, calls, plan,
                   input_files, planner, initially, threads>>

\* backoff::retry after a transient error when next_backoff gives None: the
\* error is returned (lines 67-70 unwrap it).
RetryGiveUp ==
    /\ operation.pc = "backoff"
    /\ operation.slept >= operation.budget
    /\ operation' = [operation EXCEPT
            !.pc = "returned", !.result = unwrap_error(operation.failed)]
    /\ UNCHANGED <<jobs, datums, output_files, row_locks, k8s_jobs,
                   running_pods, worker, babysitter, calls, plan,
                   input_files, planner, initially, threads>>

\* The number of intervals that the backoff grants at most before its
\* max_elapsed_time has passed.
MaxBackoffs == 3

\* What PgConnection::establish, or another operation f, can answer.
Outcomes ==
    {Ok("connection")}
    \cup {[ok |-> FALSE, value |-> e] : e \in {"refused", "no such host"}}

\* db::connect, or another caller of retry_if_appropriate: the operation
\* answers its n-th invocation with outcomes[n], and the backoff grants
\* budget intervals.
InitConnect ==
    /\ jobs = [j \in {FirstJob} |-> NewJob]
    /\ datums = [d \in 1..NumDatums |-> NewDatum(FirstJob, MaxAllowedRuns)]
    /\ output_files = [d \in 1..NumDatums |-> <<>>]
    /\ row_locks = {}
    /\ k8s_jobs = {FirstJob}
    /\ running_pods = {}
    /\ worker = [p \in Pods |-> [IdleWorker EXCEPT !.pc = "dead"]]
    /\ babysitter = [b \in Babysitters |->
                        [IdleBabysitter EXCEPT !.pc = "off"]]
    /\ calls = [c \in Calls |-> IdleCall]
    /\ plan = [d \in 1..NumDatums |-> AnyOutcome]
    /\ input_files = [d \in 1..NumDatums |-> PlannedInputFiles(d)]
    /\ planner = NoPlanner
    /\ initially = NoSnapshot
    /\ threads = NoThreads
    /\ operation \in
            [pc : {"invoke"}, via : ConnectVia,
             outcomes : [1..MaxBackoffs + 1 -> Outcomes],
             budget : 0..MaxBackoffs, invoked : {0}, slept : {0},
             failed : {[kind |-> "none", err |-> ""]}, result : {Err}]

NextConnect == RetryInvoke \/ RetrySleep \/ RetryGiveUp

SpecConnect == InitConnect /\ [][NextConnect]_vars

\* ------------------------------------------------ a PATCH and its retry
\* Client::patch_datum, rest_api.rs lines 237-251: the client sends a PATCH
\* for a datum under retry_if_appropriate; when the answer of falconerid is
\* lost after the handler has finished, the client sends the same PATCH a
\* second time.  Handler thread 1 serves the first request and thread 2 the
\* retry; nothing else touches the job in between.
InitPatchTwice ==
    /\ jobs = [j \in {FirstJob} |-> NewJob]
    /\ datums \in [1..NumDatums -> TickRows(FirstJob)]
    /\ output_files = [d \in 1..NumDatums |-> TickOutputFiles(datums[d])]
    /\ row_locks = {}
    /\ k8s_jobs = {FirstJob}
    /\ running_pods = Pods
    /\ worker = [p \in Pods |-> [IdleWorker EXCEPT !.pc = "dead"]]
    /\ babysitter = [b \in Babysitters |->
                        [IdleBabysitter EXCEPT !.pc = "off"]]
    /\ calls = [c \in Calls |-> IdleCall]
    /\ plan = [d \in 1..NumDatums |-> AnyOutcome]
    /\ input_files = [d \in 1..NumDatums |-> PlannedInputFiles(d)]
    /\ planner = NoPlanner
    /\ initially = NoSnapshot
    /\ threads = NoThreads
    /\ operation \in [pc : {"patch"}, datum : 1..NumDatums,
                      patch : DatumPatch]

NextPatchTwice ==
    \/ CallPatchMark(1, operation.datum, operation.patch)
    \/ CallPatchUpdateJob(1)
    \/ /\ calls[1].pc = "returned"
       /\ CallPatchMark(2, operation.datum, operation.patch)
    \/ CallPatchUpdateJob(2)

SpecPatchTwice == InitPatchTwice /\ [][NextPatchTwice]_vars

\* ------------------------------------------------- PATCH /output_files
\* Largest number of patches in one PATCH /output_files request.
MaxBatch == 2

\* The requests a client can send.
Batches == UNION {[1..n -> OutputFilePatch] : n \in 0..MaxBatch}

\* Pod d has reserved datum d and upload_outputs has recorded the files of
\* /pfs/out; two handler threads serve PATCH /output_files requests.
InitFiles ==
    /\ jobs = [j \in {FirstJob} |-> NewJob]
    /\ datums = [d \in FirstDatums |->
            [NewDatum(FirstJob, MaxAllowedRuns) EXCEPT
                !.status = "running", !.pod_name = d,
                !.node_name = node_name(d), !.attempted_run_count = 1]]
    /\ output_files \in
            [FirstDatums -> {[i \in 1..n |-> "running"] :
                                n \in 0..MaxOutputFiles}]
    /\ row_locks = {}
    /\ k8s_jobs = {FirstJob}
    /\ running_pods = Pods
    /\ worker = [p \in Pods |-> [IdleWorker EXCEPT !.pc = "dead"]]
    /\ babysitter = [b \in Babysitters |->
                        [IdleBabysitter EXCEPT !.pc = "off"]]
    /\ calls = [c \in Calls |-> IdleCall]
    /\ plan = [d \in FirstDatums |-> AnyOutcome]
    /\ input_files = [d \in FirstDatums |-> PlannedInputFiles(d)]
    /\ planner = NoPlanner
    /\ initially = NoSnapshot
    /\ threads = NoThreads
    /\ operation = NoOperation

NextFiles ==
    \/ \E c \in {1, 2}, batch \in Batches : CallPatchFilesSeparate(c, batch)
    \/ \E c \in {1, 2} : CallPatchFilesDone(c)
    \/ \E c \in {1, 2} : CallPatchFilesError(c)
    \/ \E c \in {1, 2} : CallPatchFilesCommit(c)
    \/ \E c \in {1, 2} : CallDone(c)

SpecFiles == InitFiles /\ [][NextFiles]_vars


\* ------------------------------------------- the worker, stage by stage
\* One worker, on pod 1, with process_datum followed through its stages.
MaxExitStatus == 2

ExitStatuses == 0..MaxExitStatus

\* main, before the loop: nothing is being processed.
AtLoop(command) ==
    [pc |-> "loop", command |-> command, datum |-> NoDatum,
     to_download |-> 0, downloaded |-> <<>>, spawned |-> 0,
     status |-> <<>>, uploaded |-> <<>>, result |-> Null]

\* (mutant) the exit status of the command is not looked at.
command_result_whatever_status(command, status) ==
    IF command = <<>> THEN "err" ELSE "ok"

\* process_datum, lines 145-167: the result of running the command.
command_result(command, status) ==
    IF command = <<>> THEN "err"
    ELSE IF status # 0 THEN "err"
    ELSE "ok"

\* main, lines 59-68 and 102-117: fetch the job, leave unless it is running,
\* reserve the next datum; without one, update the job and wait.
MainReserve(p) ==
    /\ operation.pc = "loop"
    /\ IF jobs[WorkerJob].status # "running"
       THEN /\ operation' = [operation EXCEPT !.pc = "exited"]
            /\ UNCHANGED <<jobs, datums>>
       ELSE IF find_already_reserved_datum(WorkerJob, p) # {}
       THEN /\ \E d \in find_already_reserved_datum(WorkerJob, p) :
                  operation' = [operation EXCEPT
                      !.pc = "download", !.datum = d,
                      !.to_download = Cardinality(input_files[d])]
            /\ UNCHANGED <<jobs, datums>>
       ELSE IF ReadyUnlocked(WorkerJob) # {}
       THEN /\ \E d \in ReadyUnlocked(WorkerJob) :
                  /\ datums' = MarkRunning(d, node_name(p), p)
                  /\ operation' = [operation EXCEPT
                        !.pc = "download", !.datum = d,
                        !.to_download = Cardinality(input_files[d])]
            /\ UNCHANGED jobs
       ELSE /\ jobs' = JobsAfterUpdate(WorkerJob)
            /\ operation' = [operation EXCEPT !.pc = "wait"]
            /\ UNCHANGED datums
    /\ UNCHANGED <<output_files, row_locks, k8s_jobs, running_pods, worker, babysitter, calls, plan, input_files, planner, initially, threads>>

\* process_datum, lines 135-140: sync_down of the next input file.
ProcessDatumDownload(ok) ==
    /\ operation.pc = "download"
    /\ operation.to_download > 0
    /\ operation' = [operation EXCEPT
            !.downloaded = Append(@, ok),
            !.to_download = @ - 1,
            !.pc = IF ok THEN "download" ELSE "report",
            !.result = IF ok THEN Null ELSE "err"]
    /\ UNCHANGED <<jobs, datums, output_files, row_locks, k8s_jobs, running_pods, worker, babysitter, calls, plan, input_files, planner, initially, threads>>

\* process_datum, lines 145-167: run the command and wait for it.
ProcessDatumCommand(status) ==
    /\ operation.pc = "download"
    /\ operation.to_download = 0
    /\ LET result == command_result(operation.command, status)
       IN operation' = [operation EXCEPT
            !.spawned = IF operation.command = <<>> THEN @ ELSE @ + 1,
            !.status = IF operation.command = <<>> THEN <<>> ELSE <<status>>,
            !.pc = IF result = "ok" THEN "upload" ELSE "report",
            !.result = IF result = "ok" THEN Null ELSE "err"]
    /\ UNCHANGED <<jobs, datums, output_files, row_locks, k8s_jobs, running_pods, worker, babysitter, calls, plan, input_files, planner, initially, threads>>

\* process_datum, lines 170-172: upload_outputs records n files, sync_up
\* returns ok or not, and the work directories are reset.
ProcessDatumUpload(n, ok, reset) ==
    /\ operation.pc = "upload"
    /\ output_files' = [output_files EXCEPT ![operation.datum] =
            [i \in 1..(Len(@) + n) |-> IF ok THEN "done" ELSE "error"]]
    /\ operation' = [operation EXCEPT
            !.uploaded = <<ok>>,
            !.pc = "report",
            !.result = IF ok /\ reset THEN "ok" ELSE "err"]
    /\ UNCHANGED <<jobs, datums, row_locks, k8s_jobs, running_pods, worker, babysitter, calls, plan, input_files, planner, initially, threads>>

\* main, lines 83-101: record the result on the datum and loop.
MainReport ==
    /\ operation.pc = "report"
    /\ datums' =
          IF operation.result = "ok"
          THEN mark_as_done(operation.datum, "captured")
          ELSE mark_as_error(operation.datum, "captured", "failed", "trace")
    /\ operation' = AtLoop(operation.command)
    /\ UNCHANGED <<jobs, output_files, row_locks, k8s_jobs, running_pods, worker, babysitter, calls, plan, input_files, planner, initially, threads>>

\* The job of NumDatums ready datums, and a worker whose command is empty
\* or not.
InitWorker ==
    /\ jobs = [j \in {FirstJob} |-> NewJob]
    /\ datums = [d \in FirstDatums |-> NewDatum(FirstJob, MaxAllowedRuns)]
    /\ output_files = [d \in FirstDatums |-> <<>>]
    /\ row_locks = {}
    /\ k8s_jobs = {FirstJob}
    /\ running_pods = {1}
    /\ worker = [p \in Pods |-> [IdleWorker EXCEPT !.pc = "dead"]]
    /\ babysitter = [b \in Babysitters |->
                        [IdleBabysitter EXCEPT !.pc = "off"]]
    /\ calls = [c \in Calls |-> IdleCall]
    /\ plan = [d \in FirstDatums |-> AnyOutcome]
    /\ input_files = [d \in FirstDatums |-> PlannedInputFiles(d)]
    /\ planner = NoPlanner
    /\ initially = NoSnapshot
    /\ threads = NoThreads
    /\ operation \in {AtLoop(<<>>), AtLoop(<<"cmd">>)}

NextWorker ==
    \/ MainReserve(1)
    \/ \E ok \in BOOLEAN : ProcessDatumDownload(ok)
    \/ \E status \in ExitStatuses : ProcessDatumCommand(status)
    \/ \E n \in 0..MaxOutputFiles, ok \in BOOLEAN, reset \in BOOLEAN :
            ProcessDatumUpload(n, ok, reset)
    \/ MainReport

SpecWorker == InitWorker /\ [][NextWorker]_vars

\* ================================================================= claims
Returned == {c \in Calls : calls[c].pc = "returned"}

GotDatum == {c \in Returned : calls[c].result > NoDatum}

DistinctPods ==
    \A c1, c2 \in Calls :
        (c1 # c2 /\ calls[c1].pc # "idle" /\ calls[c2].pc # "idle")
            => calls[c1].pod # calls[c2].pod

\* C1: when NumCalls callers with pairwise distinct pod names reserve
\* concurrently on a running job of NumDatums <= NumCalls ready datums, no
\* datum is handed to two callers, and once all calls have returned exactly
\* NumDatums of them returned a datum and the others returned null.
AtMostOneWorker ==
    DistinctPods =>
        /\ \A c1, c2 \in GotDatum :
                c1 # c2 => calls[c1].result # calls[c2].result
        /\ (Returned = Calls /\ NumCalls >= NumDatums) =>
                /\ Cardinality(GotDatum) = NumDatums
                /\ \A c \in Calls \ GotDatum : calls[c].result = NoDatum

\* A state where all callers, with distinct pod names, have returned, some
\* with a datum and some with null.
AtMostOneWorkerWitness ==
    /\ DistinctPods
    /\ Returned = Calls
    /\ Cardinality(GotDatum) = NumDatums
    /\ Calls \ GotDatum # {}

\* The calls of pod p other than c and r.
OtherCallsOf(p, c, r) ==
    {x \in Calls \ {c, r} : calls[x].pc # "idle" /\ calls[x].pod = p}

\* C2: a reserve_next_datum request that repeats an answered request of the
\* same pod (no PATCH and no other request of that pod in between) returns
\* the same datum, whose attempted_run_count is 1; it is answered by the
\* lookup, which changes no datum.
IdempotentReservation ==
    /\ [](\A c \in Returned :
            (calls[c].retry_of # 0
                /\ OtherCallsOf(calls[c].pod, c, calls[c].retry_of) = {})
            => /\ calls[c].result = calls[calls[c].retry_of].result
               /\ datums[calls[c].result].attempted_run_count = 1)
    /\ [][\A c \in Calls :
            (calls[c].pc = "idle" /\ calls'[c].retry_of # 0
                /\ OtherCallsOf(calls'[c].pod, c, calls'[c].retry_of) = {})
            => (calls'[c].pc = "returned" /\ datums' = datums)]_vars

\* A state where a repeated request has returned a datum.
IdempotentReservationWitness ==
    \E c \in Returned :
        /\ calls[c].retry_of # 0
        /\ OtherCallsOf(calls[c].pod, c, calls[c].retry_of) = {}
        /\ calls[c].result > NoDatum


\* C3: in the retry scenario, unless the pod of the worker dies, the datum
\* is eventually done after RetryScenarioRuns reservations and the job is
\* done; and a datum that was requeued to ready while the job is running is
\* eventually reserved again.
RetryLiveness ==
    \/ <>(worker[1].pc = "dead")
    \/ /\ <>(/\ datums[1].status = "done"
             /\ datums[1].attempted_run_count = RetryScenarioRuns
             /\ jobs[FirstJob].status = "done")
       /\ [](( /\ datums[1].status = "ready"
               /\ datums[1].attempted_run_count > 0
               /\ jobs[FirstJob].status = "running")
             => <>(datums[1].status = "running"))

\* C4: no step changes the status of a job that is done, error or canceled.
JobTerminalStability ==
    [][\A j \in DOMAIN jobs :
        has_finished(jobs[j].status) => jobs'[j].status = jobs[j].status]_vars

\* A finished job on which update_status_if_done would now decide
\* differently: its datums have changed since it finished.
JobTerminalStabilityWitness ==
    \E j \in DOMAIN jobs :
        /\ has_finished(jobs[j].status)
        /\ update_status_unguarded(j) # jobs[j].status

\* The datums of job j that are not done.
NotDone(j) == {d \in DatumsOf(j) : datums[d].status # "done"}

\* Datum d can not be rerun: it is canceled, or in error with no run left.
Exhausted(d) ==
    \/ datums[d].status = "canceled"
    \/ /\ datums[d].status = "error"
       /\ datums[d].attempted_run_count >= datums[d].maximum_allowed_run_count

\* A babysitter is checking job j, whose Kubernetes job it did not find.
VanishedFor(j) ==
    \E b \in Babysitters :
        /\ babysitter[b].pc = "jobs"
        /\ j \in babysitter[b].jobs
        /\ j \notin babysitter[b].names

\* C5 as stated: in every state a job is done iff all its datums are done,
\* and error iff it has datums that are not done and all of them are
\* exhausted.
JobTerminalIff ==
    \A j \in DOMAIN jobs :
        /\ jobs[j].status = "done" <=> NotDone(j) = {}
        /\ jobs[j].status = "error" <=>
                (NotDone(j) # {} /\ \A d \in NotDone(j) : Exhausted(d))

\* C5, amended: a step sets a running job to done only when all its datums
\* are done, and to error only when it has datums that are not done and all
\* of them are exhausted, or when a babysitter applies the vanished-job rule
\* to a job older than 15 minutes.
JobTerminalTransition ==
    [][\A j \in DOMAIN jobs :
        (jobs[j].status = "running" /\ jobs'[j].status # "running") =>
            \/ /\ jobs'[j].status = "done"
               /\ NotDone(j) = {}
            \/ /\ jobs'[j].status = "error"
               /\ NotDone(j) # {}
               /\ \A d \in NotDone(j) : Exhausted(d)
            \/ /\ jobs'[j].status = "error"
               /\ jobs[j].old
               /\ VanishedFor(j)]_vars

\* A job that update_status_if_done has set to error: it is younger than
\* the cutoff of the vanished-job rule, and all its unfinished datums are
\* exhausted.
JobTerminalTransitionWitness ==
    \E j \in DOMAIN jobs :
        /\ jobs[j].status = "error"
        /\ ~jobs[j].old
        /\ NotDone(j) # {}
        /\ \A d \in NotDone(j) : Exhausted(d)

\* C6: no datum has been reserved more often than it allows, and no step
\* sets a datum to ready that is in error with no run left.
RetryCap ==
    /\ [](\A d \in DatumIds :
            datums[d].attempted_run_count
                <= datums[d].maximum_allowed_run_count)
    /\ [][\A d \in DatumIds :
            (datums[d].status = "error" /\ Exhausted(d))
                => datums'[d].status # "ready"]_vars

\* A babysitter is about to examine a candidate for a rerun that has used
\* up its runs since the babysitter loaded it.
RetryCapWitness ==
    \E b \in Babysitters, d \in DatumIds :
        /\ babysitter[b].pc = "rerun"
        /\ d \in babysitter[b].rerun
        /\ datums[d].status = "error"
        /\ datums[d].attempted_run_count = datums[d].maximum_allowed_run_count

\* C7: a running job that has datums that are not done, all of them in
\* error with no run left, eventually gets status error.
RetryCapLiveness ==
    \A j \in {FirstJob} :
        (/\ jobs[j].status = "running"
         /\ NotDone(j) # {}
         /\ \A d \in NotDone(j) :
                datums[d].status = "error" /\ Exhausted(d))
            ~> (jobs[j].status = "error")

\* C8: a step sets a datum to done only if the datum is running: a PATCH
\* with status done does not set a datum to done that is ready or in error.
MarkDoneRequiresRunning ==
    [][\A d \in DatumIds :
        (datums'[d].status = "done" /\ datums[d].status # "done")
            => datums[d].status = "running"]_vars

OutputFileCleanup ==
    [][\A d \in DatumIds :
        (datums[d].status = "error" /\ datums'[d].status = "ready")
            => output_files'[d] = <<>>]_vars

\* A babysitter is about to requeue a datum that has OutputFile rows.
OutputFileCleanupWitness ==
    \E b \in Babysitters, d \in DatumIds :
        /\ babysitter[b].pc = "rerun"
        /\ d \in babysitter[b].rerun
        /\ d \notin row_locks
        /\ is_rerunable(datums[d])
        /\ output_files[d] # <<>>

\* C11: the datums of a job are ready, running, done or in error, and no
\* step adds a datum to a job that exists, removes a datum or moves a datum
\* to another job: while the job has not finished, the four counts add up
\* to the number of datums the job was created with.
DatumConservation ==
    /\ [](\A j \in DOMAIN jobs :
            ~has_finished(jobs[j].status) =>
                datum_status_counts(j)["ready"].count
                    + datum_status_counts(j)["running"].count
                    + datum_status_counts(j)["done"].count
                    + datum_status_counts(j)["error"].count
                = Cardinality(DatumsOf(j)))
    /\ [][/\ (\A d \in DatumIds :
                d \in DOMAIN datums' /\ datums'[d].job_id = datums[d].job_id)
           /\ (\A x \in DOMAIN datums' \ DatumIds :
                datums'[x].job_id \notin DOMAIN jobs)]_vars

\* The failed job was retried: the retry created datums, all for the new
\* job, which is running next to the first job with its datum.
DatumConservationWitness ==
    /\ RetryJobId \in DOMAIN jobs
    /\ jobs[RetryJobId].status = "running"
    /\ DatumsOf(RetryJobId) # {}
    /\ Cardinality(DatumsOf(FirstJob)) = 1

\* C12: a step changes the attempted_run_count of a datum only when it
\* moves the datum from ready to running, and then by exactly +1.
AttemptedRunCountMonotone ==
    [][\A d \in DatumIds :
        d \in DOMAIN datums' =>
            datums'[d].attempted_run_count =
                IF datums[d].status = "ready" /\ datums'[d].status = "running"
                THEN datums[d].attempted_run_count + 1
                ELSE datums[d].attempted_run_count]_vars

\* A datum that was reserved, marked as error and requeued is reserved
\* again.
AttemptedRunCountMonotoneWitness ==
    \E d \in DatumIds :
        /\ datums[d].status = "running"
        /\ datums[d].attempted_run_count = 2
        /\ datums[d].error_message # Null

\* C13: a running datum has the pod name of a caller of reserve_next_datum
\* and the name of the node of that pod.
RunningHasNodeAndPod ==
    \A d \in DatumIds :
        datums[d].status = "running" =>
            /\ datums[d].pod_name # NoPod
            /\ datums[d].node_name # NoNode
            /\ datums[d].node_name = node_name(datums[d].pod_name)

\* A running datum in its first run, which had no pod name before.
RunningHasNodeAndPodWitness ==
    \E d \in DatumIds :
        /\ datums[d].status = "running"
        /\ datums[d].attempted_run_count = 1
        /\ datums[d].pod_name \in Pods

\* The counts of C14, taken from the rows of job j.
CountReadyOrRunning(j) ==
    Cardinality({d \in DatumsOf(j) :
        datums[d].status \in {"ready", "running"}})

CountRerunable(j) ==
    Cardinality({d \in DatumsOf(j) :
        /\ datums[d].status = "error"
        /\ datums[d].attempted_run_count
               < datums[d].maximum_allowed_run_count})

CountFailed(j) ==
    Cardinality({d \in DatumsOf(j) :
        \/ /\ datums[d].status = "error"
           /\ datums[d].attempted_run_count
                  >= datums[d].maximum_allowed_run_count
        \/ datums[d].status = "canceled"})

\* C14: update_status_if_done leaves a job that is not running as it is; it
\* leaves a running job as it is if a datum is ready, running or rerunable,
\* else sets it to error if a datum has failed, else sets it to done.
UpdateStatusDecision ==
    [][\A c \in Calls, j \in DOMAIN jobs :
        (calls[c].pc = "idle" /\ calls'[c].pc = "returned"
            /\ calls'[c].job = j) =>
            jobs'[j].status =
                IF jobs[j].status # "running" THEN jobs[j].status
                ELSE IF CountReadyOrRunning(j) > 0 \/ CountRerunable(j) > 0
                     THEN "running"
                ELSE IF CountFailed(j) > 0 THEN "error"
                ELSE "done"]_vars

\* update_status_if_done has set a job without datums to done.
UpdateStatusDecisionWitness ==
    \E c \in Calls :
        /\ calls[c].pc = "returned"
        /\ calls[c].job = FirstJob
        /\ DatumsOf(FirstJob) = {}
        /\ jobs[FirstJob].status = "done"

\* Babysitter b runs its transaction on job j in this step.
CheckingJob(b, j) ==
    /\ babysitter[b].pc = "jobs"
    /\ j \in babysitter[b].jobs
    /\ babysitter'[b].jobs = babysitter[b].jobs \ {j}

\* Job j has a datum that is ready, running or rerunable.
Pending(j) == CountReadyOrRunning(j) > 0 \/ CountRerunable(j) > 0

\* C15: the transaction of a babysitter on a job leaves a job that is not
\* running as it is, gives a running job whose datums have all finished the
\* status that follows from its datums, and sets any other running job to
\* error if it is older than 15 minutes and not in the list of Kubernetes
\* jobs the babysitter loaded, and else leaves it running; no other step sets
\* a job to error that has a datum ready, running or rerunable.
VanishedJobRule ==
    [][\A j \in DOMAIN jobs :
        /\ \A b \in Babysitters :
            CheckingJob(b, j) =>
                jobs'[j].status =
                    IF jobs[j].status # "running" THEN jobs[j].status
                    ELSE IF ~Pending(j)
                         THEN IF CountFailed(j) > 0 THEN "error" ELSE "done"
                    ELSE IF jobs[j].old /\ j \notin babysitter[b].names
                         THEN "error"
                    ELSE "running"
        /\ (jobs[j].status = "running" /\ jobs'[j].status # "running"
                /\ Pending(j))
             => \E b \in Babysitters : CheckingJob(b, j)]_vars

\* A job that the vanished-job rule has set to error: it is old, has no
\* Kubernetes job and a datum of it is still running.
VanishedJobRuleWitness ==
    \E j \in DOMAIN jobs :
        /\ jobs[j].status = "error"
        /\ jobs[j].old
        /\ j \notin k8s_jobs
        /\ \E d \in DatumsOf(j) : datums[d].status = "running"

\* C16: the transaction of a babysitter on a zombie candidate sets the
\* datum to error if it is running and else leaves the row as it is, and
\* leaves all other datums alone; the babysitter's next step is
\* update_status_if_done on the job of the datum.
ZombieRule ==
    [][\A b \in Babysitters :
        /\ (babysitter[b].pc = "zombies" /\ babysitter'[b].pc = "zombie_job")
            => LET d == babysitter'[b].cur
               IN  /\ d \in babysitter[b].zombies
                   /\ \A x \in DatumIds \ {d} : datums'[x] = datums[x]
                   /\ IF datums[d].status = "running"
                      THEN /\ datums'[d].status = "error"
                           /\ datums'[d].attempted_run_count
                                  = datums[d].attempted_run_count
                      ELSE datums'[d] = datums[d]
        /\ (babysitter[b].pc = "zombie_job" /\ babysitter'[b] # babysitter[b])
            => LET j == datums[babysitter[b].cur].job_id
               IN  /\ datums' = datums
                   /\ jobs'[j].status =
                        IF jobs[j].status # "running" THEN jobs[j].status
                        ELSE IF Pending(j) THEN "running"
                        ELSE IF CountFailed(j) > 0 THEN "error"
                        ELSE "done"]_vars

\* A babysitter has just run its transaction on a candidate that was no
\* longer running: a worker had marked it, or it had been requeued.
ZombieRuleWitness ==
    \E b \in Babysitters :
        /\ babysitter[b].pc = "zombie_job"
        /\ \/ datums[babysitter[b].cur].status \in {"ready", "done"}
           \/ /\ datums[babysitter[b].cur].status = "error"
              /\ datums[babysitter[b].cur].error_message = "failed"

\* C17: a step sets a datum from error to ready only if the datum has runs
\* left and its job is running.
RequeueOnlyInRunningJob ==
    [][\A d \in DatumIds :
        (datums[d].status = "error" /\ datums'[d].status = "ready") =>
            /\ datums[d].attempted_run_count
                   < datums[d].maximum_allowed_run_count
            /\ jobs[datums[d].job_id].status = "running"]_vars

\* ---------------------------------------------------------------- C18
\* The handler of POST /jobs got an error from start_batch_job.
LaunchFailed ==
    /\ calls[1].pc = "returned"
    /\ calls[1].job = FirstJob
    /\ calls[1].result = Rejected

\* C18: when the submission of run_job to Kubernetes fails, the rows that
\* the transaction committed stay as they are: the step changes no job,
\* datum or input-file row, the job stays running with all its datums ready
\* until the babysitter gives it status error, and with a babysitter
\* ticking it eventually does.
LaunchFailure ==
    /\ [][(calls[1].pc = "run_launch" /\ calls'[1].result = Rejected) =>
            /\ UNCHANGED <<jobs, datums, input_files>>
            /\ jobs'[FirstJob].status \in {"running", "error"}
            /\ \A d \in DatumsOf(FirstJob) : datums'[d].status = "ready"]_vars
    /\ [](LaunchFailed =>
            /\ FirstJob \in DOMAIN jobs
            /\ jobs[FirstJob].status \in {"running", "error"}
            /\ DatumsOf(FirstJob) # {}
            /\ \A d \in DatumsOf(FirstJob) : datums[d].status = "ready")
    /\ (LaunchFailed ~> jobs[FirstJob].status = "error")

LaunchFailureWitness ==
    /\ LaunchFailed
    /\ jobs[FirstJob].status = "error"
    /\ jobs[FirstJob].old
    /\ k8s_jobs = {}
    /\ \A d \in DatumsOf(FirstJob) : datums[d].status = "ready"

\* ---------------------------------------------------------------- C19
\* C19: the transaction of retry_job on a job that was loaded with a status
\* other than error answers with an error, inserts and changes no job,
\* datum or input-file row and submits nothing to Kubernetes (the handler
\* returns without reaching start_batch_job).
RetryRejected ==
    [][\A c \in Calls :
        (/\ calls[c].pc = "retry"
         /\ calls'[c].pc # "retry"
         /\ calls[c].loaded # "error") =>
            /\ calls'[c].pc = "returned"
            /\ calls'[c].result = Rejected
            /\ UNCHANGED <<jobs, datums, input_files, output_files,
                           k8s_jobs>>]_vars

RetryRejectedWitness ==
    \E c \in Calls :
        /\ calls[c].pc = "returned"
        /\ calls[c].result = Rejected
        /\ calls[c].job = FirstJob
        /\ calls[c].loaded = "done"
        /\ DOMAIN jobs = {FirstJob}
        /\ k8s_jobs = {FirstJob}

\* ---------------------------------------------------------------- C20
\* The datums of job j in table t.
DatumsIn(t, j) == {d \in DOMAIN t : t[d].job_id = j}

\* C20: the transaction of retry_job on a job loaded with status error
\* inserts one job with a new id and status running, and for each error
\* datum of the original job exactly one datum of the new job, ready and
\* with attempted_run_count 0, whose input files have the uri and
\* local_path of that datum's; a done datum gets none.  The rows of the
\* original job, of its datums and of their input files stay as they are.
RetryCopiesErrorDatums ==
    [][\A c \in Calls :
        (/\ calls[c].pc = "retry"
         /\ calls'[c].pc # "retry"
         /\ calls[c].loaded = "error") =>
            LET j == calls[c].job
                nj == calls'[c].job
                errors == {d \in DatumsIn(datums, j) :
                            datums[d].status = "error"}
                fresh == DatumsIn(datums', nj)
            IN  /\ nj \notin DOMAIN jobs
                /\ DOMAIN jobs' = DOMAIN jobs \cup {nj}
                /\ jobs'[nj].status = "running"
                /\ \A x \in DOMAIN jobs : jobs'[x] = jobs[x]
                /\ DOMAIN datums' = DOMAIN datums \cup fresh
                /\ fresh \cap DOMAIN datums = {}
                /\ \A d \in DOMAIN datums :
                        /\ datums'[d] = datums[d]
                        /\ input_files'[d] = input_files[d]
                /\ \A d \in fresh :
                        /\ datums'[d].status = "ready"
                        /\ datums'[d].attempted_run_count = 0
                /\ Cardinality(fresh) = Cardinality(errors)
                /\ \E f \in [errors -> fresh] :
                        /\ \A d \in fresh : \E e \in errors : f[e] = d
                        /\ \A e \in errors :
                                input_files'[f[e]] = input_files[e]]_vars

RetryCopiesErrorDatumsWitness ==
    /\ RetryJobId \in DOMAIN jobs
    /\ \E d \in DatumsOf(FirstJob) : datums[d].status = "done"
    /\ \E d \in DatumsOf(FirstJob) :
            /\ datums[d].status = "error"
            /\ DatumsOf(RetryJobId) = {NumDatums + d}
            /\ input_files[NumDatums + d] = input_files[d]
            /\ input_files[d] # {}

\* ---------------------------------------------------------------- C21
\* The atoms of an input.
RECURSIVE AtomsOf(_)
AtomsOf(input) ==
    IF input.kind = "atom" THEN {input}
    ELSE UNION {AtomsOf(input.inputs[i]) : i \in 1..Len(input.inputs)}

\* The uri of the atom has no backend, or its listing fails.
AtomFails(atom) ==
    ~for_uri(atom.uri) \/ ~planner.storage[atom.uri].ok

\* C21: when the uri of an atom of the input (of either glob) has no
\* supported scheme or cannot be listed, run_job answers with an error, no
\* job, datum or input-file row is inserted and nothing is submitted to
\* Kubernetes.
PlanningFailure ==
    (planner.planned /\ \E atom \in AtomsOf(planner.input) : AtomFails(atom))
        => /\ calls[1].pc = "returned"
           /\ calls[1].result = Rejected
           /\ DOMAIN jobs = {}
           /\ DOMAIN datums = {}
           /\ DOMAIN input_files = {}
           /\ k8s_jobs = {}

PlanningFailureWitness ==
    /\ planner.planned
    /\ calls[1].result = Rejected
    /\ planner.input.kind = "cross"
    /\ \E atom \in AtomsOf(planner.input) :
            /\ atom.glob = "WholeRepo"
            /\ for_uri(atom.uri)
            /\ AtomFails(atom)
    /\ \E atom \in AtomsOf(planner.input) : ~AtomFails(atom)

\* ---------------------------------------------------------------- C22
\* The answer of the planner for input x over the storage of the request.
PlanOf(x) == input_to_datums_helper(planner.storage, x)

\* The input files (uri and local path) of the datum at position k of the
\* vectors the planner returned, in their order.
FilesAt(out, k) ==
    LET rows == SelectSeq(out.input_files,
                          LAMBDA f : f.datum_id = out.datums[k].id)
    IN  [i \in 1..Len(rows) |->
            [uri |-> rows[i].uri, local_path |-> rows[i].local_path]]

\* C22: the plan of Cross([A, B]) has |plan(A)| * |plan(B)| datums, and the
\* datum at position i * |plan(B)| + j (from 0) has the input files of
\* plan(A)[i] followed by those of plan(B)[j]; Cross([]) has no datums,
\* Cross([x]) is planned as x and Cross([a, b, c]) as Cross([Cross([a, b]),
\* c]).
CrossIdentity ==
    (planner.planned /\ planner.input.kind = "cross") =>
        LET inputs == planner.input.inputs
            n == Len(inputs)
        IN  /\ n = 0 =>
                    /\ planner.out.ok
                    /\ planner.out.value.datums = <<>>
                    /\ planner.out.value.input_files = <<>>
            /\ n = 1 =>
                    planner.out =
                        input_to_datums(planner.storage, FirstJob, inputs[1])
            /\ (n = 2 /\ PlanOf(inputs[1]).ok /\ PlanOf(inputs[2]).ok) =>
                    LET plan_a == PlanOf(inputs[1]).value
                        plan_b == PlanOf(inputs[2]).value
                    IN  /\ planner.out.ok
                        /\ Len(planner.out.value.datums)
                                = Len(plan_a) * Len(plan_b)
                        /\ \A i \in 0..(Len(plan_a) - 1) :
                           \A j \in 0..(Len(plan_b) - 1) :
                                FilesAt(planner.out.value,
                                        i * Len(plan_b) + j + 1)
                                    = plan_a[i + 1] \o plan_b[j + 1]
            /\ n = 3 =>
                    planner.out =
                        input_to_datums(planner.storage, FirstJob,
                            Cross(<<Cross(<<inputs[1], inputs[2]>>),
                                    inputs[3]>>))

CrossIdentityWitness ==
    /\ planner.planned
    /\ planner.out.ok
    /\ planner.input.kind = "cross"
    /\ Len(planner.input.inputs) = 2
    /\ planner.input.inputs[1].kind = "union"
    /\ Len(PlanOf(planner.input.inputs[1]).value) = 3
    /\ Len(PlanOf(planner.input.inputs[2]).value) = 2
    /\ Len(planner.out.value.datums) = 6
    /\ FilesAt(planner.out.value, 2) # FilesAt(planner.out.value, 4)
    /\ DOMAIN datums = 1..6

\* ---------------------------------------------------------------- C23
\* The datums of the vectors the planner returned, each as the sequence of
\* its input files.
DatumsData(out) == [k \in 1..Len(out.datums) |-> FilesAt(out, k)]

\* C23: the plan of Union([A, B]) is the plan of A followed by the plan of
\* B, duplicates kept; and in the two vectors the planner returns the ids
\* of the datums are distinct and every input file carries the id of
\* exactly one of the datums.
UnionIdentity ==
    (planner.planned /\ planner.out.ok) =>
        LET out == planner.out.value
            inputs == planner.input.inputs
        IN  /\ \A i, k \in 1..Len(out.datums) :
                    i # k => out.datums[i].id # out.datums[k].id
            /\ \A f \in 1..Len(out.input_files) :
                    Cardinality({k \in 1..Len(out.datums) :
                        out.datums[k].id = out.input_files[f].datum_id}) = 1
            /\ (planner.input.kind = "union" /\ Len(inputs) = 2) =>
                    /\ PlanOf(inputs[1]).ok
                    /\ PlanOf(inputs[2]).ok
                    /\ DatumsData(out) =
                            PlanOf(inputs[1]).value \o PlanOf(inputs[2]).value
                    /\ Len(out.input_files) =
                            Len(all_input_files(PlanOf(inputs[1]).value,
                                                FirstJob, 1))
                          + Len(all_input_files(PlanOf(inputs[2]).value,
                                                FirstJob, 1))

UnionIdentityWitness ==
    /\ planner.planned
    /\ planner.out.ok
    /\ planner.input.kind = "union"
    /\ Len(planner.input.inputs) = 2
    /\ planner.input.inputs[1] = planner.input.inputs[2]
    /\ planner.input.inputs[1].kind = "cross"
    /\ Len(planner.out.value.datums) = 4
    /\ Len(planner.out.value.input_files) = 8
    /\ FilesAt(planner.out.value, 1) = FilesAt(planner.out.value, 3)
    /\ FilesAt(planner.out.value, 1) # FilesAt(planner.out.value, 2)

\* ---------------------------------------------------------------- C24
\* C24: for an atom with glob WholeRepo whose uri can be listed, the
\* planner emits exactly one datum, whatever the listing holds, with one
\* input file whose uri is the uri of the atom with a '/' at its end and
\* whose local path is "/pfs/<repo>/", which ends with '/' too.
WholeRepoPlan ==
    (/\ planner.planned
     /\ planner.input.kind = "atom"
     /\ planner.input.glob = "WholeRepo"
     /\ ~AtomFails(planner.input)) =>
        /\ planner.out.ok
        /\ Len(planner.out.value.datums) = 1
        /\ Len(planner.out.value.input_files) = 1
        /\ LET file == planner.out.value.input_files[1]
           IN  /\ file.datum_id = planner.out.value.datums[1].id
               /\ ends_with(file.uri, "/")
               /\ file.uri \in {planner.input.uri,
                                 planner.input.uri \o <<"/">>}
               /\ file.local_path = Pfs \o planner.input.repo \o <<"/">>
               /\ ends_with(file.local_path, "/")

\* ---------------------------------------------------------------- C25
\* The text of uri after its last '/'.
AfterLastSlash(uri) == SubSeq(uri, rfind(uri, "/") + 1, Len(uri))

\* C25: for an atom with glob TopLevelDirectoryEntries whose uri can be
\* listed, each listed uri yields one datum with one input file of that
\* uri and the local path "/pfs/<repo>/<basename>", the basename being the
\* text after the last '/' of the uri; if a listed uri ends with '/', the
\* planning fails and run_job answers with an error.
TopLevelEntriesPlan ==
    (/\ planner.planned
     /\ planner.input.kind = "atom"
     /\ planner.input.glob = "TopLevelDirectoryEntries"
     /\ ~AtomFails(planner.input)) =>
        LET file_uris == planner.storage[planner.input.uri].value
        IN  IF \E i \in 1..Len(file_uris) : ends_with(file_uris[i], "/")
            THEN /\ ~planner.out.ok
                 /\ calls[1].result = Rejected
                 /\ DOMAIN datums = {}
            ELSE /\ planner.out.ok
                 /\ Len(planner.out.value.datums) = Len(file_uris)
                 /\ \A i \in 1..Len(file_uris) :
                        FilesAt(planner.out.value, i) =
                            <<[uri |-> file_uris[i],
                               local_path |->
                                    Pfs \o planner.input.repo \o <<"/">>
                                        \o AfterLastSlash(file_uris[i])]>>


\* The tables.
Tables == [jobs |-> jobs, datums |-> datums, output_files |-> output_files]

\* The status that the decision of update_status_if_done leaves on a job
\* with the given status and datum rows.
StatusAfterUpdate(status, rows) ==
    IF status # "running" THEN status
    ELSE IF \E d \in DOMAIN rows :
                \/ rows[d].status \in {"ready", "running"}
                \/ /\ rows[d].status = "error"
                   /\ rows[d].attempted_run_count
                          < rows[d].maximum_allowed_run_count
         THEN status
    ELSE IF \E d \in DOMAIN rows : rows[d].status \in {"error", "canceled"}
         THEN "error"
    ELSE "done"

\* The tables that one babysitter tick, run alone on the tables in snapshot,
\* leaves: the job check, then the zombie check, then the requeue check.
SingleTick(snapshot) ==
    LET j == FirstJob
        rows_0 == snapshot.datums
        decided == StatusAfterUpdate(snapshot.jobs[j].status, rows_0)
        checked ==
            IF decided = "running" /\ snapshot.jobs[j].old
                    /\ j \notin k8s_jobs
            THEN "error"
            ELSE decided
        gone ==
            IF checked # "running" THEN {}
            ELSE {d \in DOMAIN rows_0 :
                    /\ rows_0[d].status = "running"
                    /\ rows_0[d].pod_name \notin running_pods}
        rows_1 ==
            [d \in DOMAIN rows_0 |->
                IF d \in gone
                THEN [rows_0[d] EXCEPT
                        !.status = "error", !.output = "nocapture",
                        !.error_message = "vanished", !.backtrace = "notrace"]
                ELSE rows_0[d]]
        after_zombies ==
            IF gone = {} THEN checked ELSE StatusAfterUpdate(checked, rows_1)
        requeued ==
            IF after_zombies # "running" THEN {}
            ELSE {d \in DOMAIN rows_1 :
                    /\ rows_1[d].status = "error"
                    /\ rows_1[d].attempted_run_count
                           < rows_1[d].maximum_allowed_run_count}
    IN  [jobs |-> [snapshot.jobs EXCEPT ![j].status = after_zombies],
         datums |->
            [d \in DOMAIN rows_1 |->
                IF d \in requeued
                THEN [rows_1[d] EXCEPT !.status = "ready"]
                ELSE rows_1[d]],
         output_files |->
            [d \in DOMAIN rows_1 |->
                IF d \in requeued THEN <<>> ELSE snapshot.output_files[d]]]

\* A datum row changes only by going from running to error or from error to
\* ready, so that no datum is marked or requeued twice.
EachDatumOnce ==
    \A d \in DatumIds :
        datums'[d] # datums[d] =>
            \/ datums[d].status = "running" /\ datums'[d].status = "error"
            \/ /\ datums[d].status = "error" /\ datums'[d].status = "ready"
               /\ datums'[d] = [datums[d] EXCEPT !.status = "ready"]

\* The status of a job is written only while it is running, and never to
\* running, so that it is written at most once.
JobStatusOnce ==
    \A j \in DOMAIN jobs :
        jobs'[j].status # jobs[j].status =>
            jobs[j].status = "running"

\* C26: when the babysitters of two replicas tick at the same time on the
\* same tables, with no worker request in between and the cluster as it is,
\* every interleaving of their transactions ends in the tables that one tick
\* alone leaves: every zombie datum is marked as error once, every datum
\* that can be rerun goes from error to ready once, and the status of the
\* job is written at most once.
ConcurrentTicks ==
    /\ [][EachDatumOnce /\ JobStatusOnce]_vars
    /\ <>[](Tables = SingleTick(initially))

\* Both babysitters hold the same zombie candidate, and one of them has
\* already marked it as error and requeued it.
ConcurrentTicksWitness ==
    /\ initially # NoSnapshot
    /\ \E d \in DatumIds :
        /\ initially.datums[d].status = "running"
        /\ datums[d].status = "ready"
        /\ \E b \in Babysitters :
            babysitter[b].pc = "zombies" /\ d \in babysitter[b].zombies
    /\ Tables = SingleTick(initially)


\* The threads that are about to call, or have just called, a storage or
\* Kubernetes adapter.
AtAdapter(t) == Running(t) /\ NextCall(t).op = "adapter"

\* C27: no thread holds a database row lock while it calls a storage or
\* Kubernetes adapter: in run_job, retry_job and the three checks of the
\* babysitter, every list, deploy and kubectl call comes outside the
\* transactions that lock rows.
NoLockAcrossAdapterCall ==
    \A t \in DOMAIN threads :
        AtAdapter(t) => threads[t].locks = {} /\ threads[t].depth = 0

\* run_job is about to deploy after its transaction, retry_job is inside
\* its transaction, and the babysitter holds the lock of a row.
NoLockAcrossAdapterCallWitness ==
    /\ threads # NoThreads
    /\ AtAdapter("run_job") /\ threads["run_job"].pc > 1
    /\ threads["retry_job"].depth = 1
    /\ threads["babysitter"].locks # {}


\* The operation has returned to the caller of retry_if_appropriate.
RetryReturned == operation.pc = "returned"

\* C28: via Proxy, retry_if_appropriate invokes the operation exactly once
\* and returns its result, an error unchanged.  Via Cluster, a failing
\* operation is invoked again after a backoff, the first success is
\* returned, and an error is returned only when the backoff grants no
\* further interval; it is the error of the last invocation.
RetryPolicy ==
    RetryReturned =>
        /\ operation.result = operation.outcomes[operation.invoked]
        /\ \A n \in 1..operation.invoked - 1 : ~operation.outcomes[n].ok
        /\ operation.via = "Proxy" => operation.invoked = 1
        /\ operation.via = "Cluster" /\ ~operation.result.ok =>
                /\ operation.slept = operation.budget
                /\ operation.invoked = operation.budget + 1

\* Via Cluster, the operation failed twice with different errors and then
\* succeeded on its third invocation.
RetryPolicyWitness ==
    /\ RetryReturned
    /\ operation.via = "Cluster"
    /\ operation.invoked = 3
    /\ operation.result.ok
    /\ operation.outcomes[1] # operation.outcomes[2]


\* The handler has answered the first of the two equal PATCH requests.
FirstPatchApplied == calls[1].pc = "returned"

\* C29: mark_as_done and mark_as_error are idempotent: when the same PATCH
\* is applied a second time right after the first, no step of the second
\* application changes a datum (its status, output, error message and
\* backtrace) or the status of its job.
PatchIdempotent ==
    [][FirstPatchApplied => datums' = datums /\ jobs' = jobs]_vars

\* Both applications of an accepted PATCH have been answered, and the first
\* one changed the datum and made the job terminal.
PatchIdempotentWitness ==
    /\ operation.pc = "patch"
    /\ calls[1].pc = "returned" /\ calls[1].result = operation.datum
    /\ calls[2].pc = "returned" /\ calls[2].result = operation.datum
    /\ datums[operation.datum].status = operation.patch.status
    /\ datums[operation.datum].attempted_run_count = 0
    /\ jobs[FirstJob].status \in {"done", "error"}


\* The two bodies that PATCH /datums/<id> is said to accept.
DoneWithoutDiagnostics(patch) ==
    patch.status = "done" /\ patch.error_message = Null
        /\ patch.backtrace = Null

ErrorWithDiagnostics(patch) ==
    patch.status = "error" /\ patch.error_message # Null
        /\ patch.backtrace # Null

WellFormedPatch ==
    DoneWithoutDiagnostics(operation.patch)
        \/ ErrorWithDiagnostics(operation.patch)

\* The handler threads that went on after the match, and those that
\* answered with an error.
PatchApplied ==
    {c \in Calls : \/ calls[c].pc = "update_job"
                   \/ calls[c].pc = "returned" /\ calls[c].result > NoDatum}

PatchRejected ==
    {c \in Calls : calls[c].pc = "returned" /\ calls[c].result = Rejected}

\* C30: PATCH /datums/<id> accepts a body with status done and neither
\* error message nor backtrace, and a body with status error and both; any
\* other body (status ready, running or canceled, done with a diagnostic,
\* error without one of them) is answered with an error, changes no datum,
\* and does not run update_status_if_done: the jobs stay as they are.
PatchValidation ==
    /\ [](/\ PatchApplied # {} => WellFormedPatch
          /\ PatchRejected # {} => ~WellFormedPatch)
    /\ [][~WellFormedPatch =>
            /\ datums' = datums
            /\ jobs' = jobs
            /\ \A c \in Calls : calls'[c].pc \in {"idle", "returned"}]_vars

\* A PATCH with status error and an error message but no backtrace, for a
\* running datum, has been answered with an error, twice.
PatchValidationWitness ==
    /\ operation.pc = "patch"
    /\ operation.patch.status = "error"
    /\ operation.patch.error_message # Null
    /\ operation.patch.backtrace = Null
    /\ datums[operation.datum].status = "running"
    /\ PatchRejected = {1, 2}


\* Every patch of the batch has status done or error.
batch_ok(batch) ==
    \A i \in DOMAIN batch : batch[i].status \in {"done", "error"}

\* The status that a batch asks for the row id: a patch with status error
\* prevails over one with status done.
AskedStatus(batch, id) ==
    IF \E i \in DOMAIN batch : batch[i].id = id /\ batch[i].status = "error"
    THEN "error" ELSE "done"

\* The rows of table output_files, and those that a batch names.
OutputFileRows == {<<d, i>> : d \in DOMAIN output_files,
                              i \in 1..MaxOutputFiles}
                  \cap {<<d, i>> \in OutputFileIds :
                            i \in DOMAIN output_files[d]}

NamedIn(batch) == {batch[i].id : i \in DOMAIN batch}

\* The step is the commit of the whole batch of handler thread c.
WholeBatch(c) ==
    /\ calls[c].pc = "files_commit"
    /\ calls'[c].pc = "returned"
    /\ \A id \in OutputFileRows :
        output_files'[id[1]][id[2]] =
            IF id \in NamedIn(calls[c].batch)
            THEN AskedStatus(calls[c].batch, id)
            ELSE output_files[id[1]][id[2]]

\* C31: PATCH /output_files is all or nothing.  A batch with a patch whose
\* status is neither done nor error is answered with an error, and only
\* such a batch is; and table output_files changes only in steps that apply
\* all done and all error updates of one batch at once, so that a refused
\* batch changes no row and no one sees a part of a batch.
PatchFilesAllOrNothing ==
    /\ [](\A c \in Calls :
            /\ calls[c].pc \in {"files_done", "files_error", "files_commit"}
                    => batch_ok(calls[c].batch)
            /\ calls[c].pc = "returned" /\ calls[c].result = Rejected
                    => ~batch_ok(calls[c].batch)
            /\ calls[c].pc = "returned" /\ calls[c].result = NoContent
                    => batch_ok(calls[c].batch))
    /\ [][output_files' # output_files =>
            \E c \in Calls : WholeBatch(c)]_vars

\* A batch that marks one row as done and another as error has been
\* applied, while the other handler thread refused a batch that named the
\* same rows.
PatchFilesAllOrNothingWitness ==
    /\ calls[1].pc = "returned" /\ calls[1].result = NoContent
    /\ Len(calls[1].batch) = 2
    /\ output_files[1] = <<"done">> /\ output_files[2] = <<"error">>
    /\ calls[2].pc = "returned" /\ calls[2].result = Rejected
    /\ NamedIn(calls[2].batch) = {<<1, 1>>, <<2, 1>>}


\* The step is the zombie transaction of a babysitter on datum d, and it
\* marks the datum as error.
ZombieMarks(d) ==
    /\ \E b \in Babysitters :
        /\ babysitter[b].pc = "zombies"
        /\ babysitter'[b].pc = "zombie_job"
        /\ babysitter'[b].cur = d
    /\ datums[d].status = "running"
    /\ datums'[d].status = "error"

\* C35: the zombie rule marks a running datum as error only if the pod_name
\* that the datum has at the moment of the mark is not among the running
\* pods; a datum that since the zombie query was marked as error, requeued
\* and reserved by another pod that is alive is left alone.
ZombieOnlyIfPodGone ==
    [][\A d \in DatumIds :
        ZombieMarks(d) => datums[d].pod_name \notin running_pods]_vars


\* The step deletes OutputFile rows of datum d.
OutputFilesDeleted(d) ==
    Len(output_files'[d]) < Len(output_files[d])

\* C34: the babysitter deletes the OutputFile rows of a datum only in the
\* transaction in which it moves that datum from error to ready; the rows
\* of a candidate that is no longer rerunable under the lock, and so those
\* of a running or done datum, stay.
DeleteOnlyOnRequeue ==
    [][\A d \in DatumIds :
        OutputFilesDeleted(d) =>
            datums[d].status = "error" /\ datums'[d].status = "ready"]_vars


\* The step is the return of sync_up in the worker of pod p, which holds
\* datum d, with the given result.
UploadReturns(p, d, status) ==
    /\ worker[p].pc = "process"
    /\ worker[p].datum = d
    /\ worker'[p].pc = "mark"
    /\ worker'[p].result = IF status = "done" THEN "ok" ELSE "err"

\* The step inserts an OutputFile row for datum d, before sync_up starts.
InsertedBeforeUpload(d) ==
    /\ output_files'[d] = Append(output_files[d], "running")
    /\ \E p \in Pods :
        /\ worker[p].pc = "process" /\ worker'[p].pc = "process"
        /\ worker[p].datum = d

Reports(d, status) ==
    /\ operation.pc = "report"
    /\ operation.datum = d
    /\ datums'[d].status = status
    /\ datums[d].status # status

\* Every stage of process_datum ran and succeeded.
AllStagesSucceeded ==
    /\ Len(operation.downloaded) = Cardinality(input_files[operation.datum])
    /\ \A i \in DOMAIN operation.downloaded : operation.downloaded[i]
    /\ operation.status = <<0>>
    /\ operation.uploaded = <<TRUE>>

\* A download failed, the command exited nonzero, or the upload failed.
SomeStageFailed ==
    \/ \E i \in DOMAIN operation.downloaded : ~operation.downloaded[i]
    \/ \E status \in ExitStatuses \ {0} : operation.status = <<status>>
    \/ operation.uploaded = <<FALSE>>

\* C33: a worker reports a datum as done only if all input downloads
\* succeeded, the command exited with status 0 and the upload succeeded; if a
\* download or the upload failed or the command exited nonzero, it reports
\* the datum as error with a message and a backtrace; and it does not retry
\* locally: the command is started at most once per reservation, and the
\* worker starts work only on a datum that it has just reserved from ready.
WorkerReportsOutcome ==
    [][/\ \A d \in DatumIds :
            /\ Reports(d, "done") => AllStagesSucceeded
            /\ operation.pc = "report" /\ operation.datum = d
                    /\ SomeStageFailed =>
                /\ datums'[d].status = "error"
                /\ datums'[d].error_message # Null
                /\ datums'[d].backtrace # Null
                /\ operation'.pc = "loop"
       /\ operation'.pc # "none" => operation'.spawned <= 1
       /\ operation.pc = "loop" /\ operation'.pc = "download" =>
            /\ datums[operation'.datum].status = "ready"
            /\ datums'[operation'.datum].attempted_run_count = 1]_vars

\* The worker has reported one datum as error after its command exited
\* nonzero, has gone on to the other datum and is about to report it as
\* processed with success.
WorkerReportsOutcomeWitness ==
    /\ operation.pc = "report"
    /\ operation.result = "ok"
    /\ AllStagesSucceeded
    /\ \E d \in DatumIds :
        /\ d # operation.datum
        /\ datums[d].status = "error"
        /\ datums[d].attempted_run_count = 1


\* C36: done is terminal for a datum: no step changes the status or the
\* recorded output of a datum that is done.
DoneIsTerminal ==
    [][\A d \in DatumIds :
        datums[d].status = "done" =>
            /\ datums'[d].status = "done"
            /\ datums'[d].output = datums[d].output]_vars


\* C37: no datum moves from ready to running once its job has a terminal
\* status: a reservation for a job that is done, error or canceled changes
\* no datum.
NoReservationForFinishedJob ==
    [][\A d \in DatumIds :
        datums[d].status = "ready" /\ datums'[d].status = "running" =>
            jobs[datums[d].job_id].status = "running"]_vars


\* C38: in every reachable state, for each job and each pod name, at most
\* one datum of the job is running with that pod name, also when requests of
\* one pod overlap.
OneRunningDatumPerPod ==
    \A j \in DOMAIN jobs, p \in CallerPods :
        Cardinality({d \in DatumsOf(j) :
            datums[d].status = "running" /\ datums[d].pod_name = p}) <= 1


\* A PATCH handler has marked a datum of job j and has not yet run
\* update_job_status_if_done.
PatchPending(j) ==
    \E c \in Calls :
        /\ calls[c].pc = "update_job"
        /\ datums[calls[c].datum].job_id = j

\* Every datum of job j is done.
EveryDatumDone(j) ==
    \A d \in DOMAIN datums :
        datums[d].job_id = j => datums[d].status = "done"

\* No datum of job j is unfinished or can be rerun, and one has failed.
FinallyFailed(j) ==
    /\ \A d \in DOMAIN datums :
        datums[d].job_id = j =>
            \/ datums[d].status = "done"
            \/ /\ datums[d].status = "error"
               /\ datums[d].attempted_run_count
                    >= datums[d].maximum_allowed_run_count
    /\ ~EveryDatumDone(j)

\* C39: no missed completion with concurrent PATCH /datums handlers: when
\* no handler is left between its mark and its update of the job, a job
\* whose datums are all done, or finally failed with none unfinished or
\* rerunable, is not left running; and a running job leaves that status
\* only for done with every datum done, or for error with a datum finally
\* failed, with no babysitter taking part.
NoMissedCompletion ==
    /\ [](\A j \in DOMAIN jobs :
            ~PatchPending(j) /\ (EveryDatumDone(j) \/ FinallyFailed(j))
                => jobs[j].status # "running")
    /\ [][\A j \in DOMAIN jobs :
            jobs[j].status = "running" /\ jobs'[j].status # "running" =>
                \/ EveryDatumDone(j) /\ jobs'[j].status = "done"
                \/ FinallyFailed(j) /\ jobs'[j].status = "error"]_vars

\* Two PATCH handlers overlapped: the handler of datum 2 has returned and
\* its update found every datum done and set the job to done, while the
\* handler that marked datum 1 has yet to run its update.
NoMissedCompletionWitness ==
    /\ jobs[FirstJob].status = "done"
    /\ EveryDatumDone(FirstJob)
    /\ \E c1, c2 \in Calls :
        /\ calls[c1].pc = "update_job" /\ calls[c1].datum = 1
        /\ calls[c2].pc = "returned" /\ calls[c2].result = 2
        /\ calls[c2].pod = NoPod


\* The worker of pod p returns from main with Ok(()) in this step.
Exits(p) == worker[p].pc # "exited" /\ worker'[p].pc = "exited"

\* C40: a worker never exits successfully while its job is running.  It
\* leaves the loop only at the top, on a job that is not running, or after
\* a reservation that found no datum; in that case it calls
\* update_status_if_done and then polls the job, and it exits only once the
\* job is no longer running.
WorkerOutlivesJob ==
    /\ [](\A p \in Pods :
            worker[p].pc = "exited" => jobs[WorkerJob].status # "running")
    /\ [][\A p \in Pods :
            /\ Exits(p) =>
                /\ worker[p].pc \in {"find_job", "wait"}
                /\ jobs[WorkerJob].status # "running"
            /\ worker[p].pc # "wait" /\ worker'[p].pc = "wait" =>
                /\ worker[p].pc = "update_status"
                /\ jobs[WorkerJob].status = "running" =>
                    jobs'[WorkerJob].status =
                        IF \A d \in DOMAIN datums :
                                \/ datums[d].status = "done"
                                \/ /\ datums[d].status = "error"
                                   /\ datums[d].attempted_run_count >=
                                        datums[d].maximum_allowed_run_count
                        THEN IF \A d \in DOMAIN datums :
                                    datums[d].status = "done"
                             THEN "done" ELSE "error"
                        ELSE "running"
            /\ worker[p].pc # "update_status"
                    /\ worker'[p].pc = "update_status" =>
                /\ worker[p].pc = "select"
                /\ datums' = datums
                /\ \A d \in DOMAIN datums :
                        datums[d].status = "ready" => d \in row_locks]_vars

\* A worker found no datum to reserve and polls the running job, alive,
\* while the worker of another pod is still processing a datum.
WorkerOutlivesJobWitness ==
    \E p, q \in Pods :
        /\ worker[p].pc = "wait"
        /\ p \in running_pods
        /\ jobs[WorkerJob].status = "running"
        /\ worker[q].pc = "process"

====
